---- MODULE Spec2Model ----
(***************************************************************************)
(* A model of AaveProtocolEvm (src/src/aave-protocol-evm.js): the adapter  *)
(* that validates and submits Aave V3 lending operations for a wallet      *)
(* account.                                                                *)
(*                                                                         *)
(* One adapter instance is modelled.  A caller invokes one public method   *)
(* (Call); the method runs against the answers of its collaborators: the   *)
(* chain reader (getNetwork, getTokenBalance, contract reads) and the      *)
(* transaction sender (sendTransaction, quoteSendTransaction).  Every      *)
(* interaction with a collaborator is recorded, in order, in `log`, with   *)
(* the request the adapter made and the answer it received.  `run` is the  *)
(* execution of the method against the answers in `log`: it waits for the  *)
(* next answer, or it has thrown or returned.  An answer (getNetwork,      *)
(* getReservesData, ...) runs the method on to its next request or to its  *)
(* end.  When the method has ended, its action (supply, withdraw, ...)     *)
(* commits its effects: the memoized registry and contract handles and     *)
(* the outcome.  Deliver hands the outcome to the caller and the adapter   *)
(* is idle again.  (Specification Spec.)                                   *)
(*                                                                         *)
(* A second specification, SpecConcurrent, runs the three memoizing        *)
(* getters (_getAddressMap, _getPoolContract,                              *)
(* _getUiPoolDataProviderContract) as concurrent executions (`tasks`) that *)
(* interleave at their awaits, as the operations of one adapter started    *)
(* together do.  A third, SpecAllowance, runs supplies and repays of a     *)
(* standard account as concurrent executions (`inFlight`) and follows the  *)
(* pool's `allowance` on the token through the transactions they hand to   *)
(* the sender.                                                             *)
(*                                                                         *)
(* Quantities are scaled so that TLC can compute them: RAY stands for      *)
(* 10^27, the liquidation threshold for 10^18, a word of UintBits bits for *)
(* a 256-bit word and a float of MantissaBits significant bits for an      *)
(* IEEE double (53 bits).                                                  *)
(***************************************************************************)
EXTENDS Integers, Sequences, FiniteSets, TLC

VARIABLES accountKind, addressMap, poolContract, uiPoolDataProviderContract,
          pc, call, log, run, outcome, tasks, inFlight, allowance

vars == <<accountKind, addressMap, poolContract, uiPoolDataProviderContract,
          pc, call, log, run, outcome, tasks, inFlight, allowance>>

(***************************************************************************)
(* Bounds of the model.                                                    *)
(***************************************************************************)
\* the largest literal amount a caller passes
MaxAmount == 3
\* the largest fee the sender reports for one transaction
MaxFee == 2
\* the executions of the memoizing getters that run concurrently
MaxTasks == 2

(***************************************************************************)
(* Values of the JavaScript runtime and of ethers.                         *)
(***************************************************************************)
Undefined == "undefined"
\* Number.POSITIVE_INFINITY: a number above every other number of the model
Infinity == 2 ^ 30
\* the width of an EVM word (256 in the program)
UintBits == 16
MaxInt256 == 2 ^ (UintBits - 1) - 1
MAX_UINT256 == 2 ^ UintBits - 1
\* the significant bits of a JavaScript number (53 in the program)
MantissaBits == 5
ZeroAddress == "0x0000"
NotAnAddress == "not-an-address"
\* the address of the wallet account (this._account.getAddress())
ME == "0xME"
BOB == "0xB0B"
USDT == "0xUSDT"
DAI == "0xDAI"

isAddress(a) == a \in {ME, BOB, USDT, DAI, ZeroAddress}

\* a value with its JavaScript type, for the places where === compares types
Num(n) == [t |-> "number", v |-> n]
Big(n) == [t |-> "bigint", v |-> n]
StrictEquals(x, y) == x.t = y.t /\ x.v = y.v

RECURSIVE BitLength(_)
BitLength(n) == IF n = 0 THEN 0 ELSE 1 + BitLength(n \div 2)

\* Number(bigint): the nearest number of MantissaBits significant bits,
\* ties to the even significand
Number(n) ==
  LET len == BitLength(n) IN
  IF len <= MantissaBits THEN n
  ELSE LET ulp == 2 ^ (len - MantissaBits)
           q == n \div ulp
           r == n % ulp
       IN IF 2 * r > ulp \/ (2 * r = ulp /\ q % 2 = 1)
          THEN (q + 1) * ulp
          ELSE q * ulp

(***************************************************************************)
(* Program constants.                                                      *)
(***************************************************************************)
DEFAULT_GAS_LIMIT == 300000
HEALTH_FACTOR_LIQUIDATION_THRESHOLD_IN_BASE_UNIT == 100
RAY == 100
HALF_RAY == RAY \div 2
PERCENTAGE_FACTOR == 10000

rayMul(a, b) == (a * b + HALF_RAY) \div RAY

percentDiv(value, percentage) ==
  (value * PERCENTAGE_FACTOR + percentage \div 2) \div percentage

isBigIntInfinity(value) == value = MaxInt256

SupportedChains == {1, 10}

AAVE_V3_ADDRESS_MAP ==
  [c \in SupportedChains |->
     [pool |-> IF c = 1 THEN "0xPool1" ELSE "0xPool10",
      uiPoolDataProvider |-> IF c = 1 THEN "0xUi1" ELSE "0xUi10",
      poolAddressesProvider |-> IF c = 1 THEN "0xProvider1" ELSE "0xProvider10",
      priceOracle |-> IF c = 1 THEN "0xOracle1" ELSE "0xOracle10"]]

NoAddressMap ==
  [pool |-> Undefined, uiPoolDataProvider |-> Undefined,
   poolAddressesProvider |-> Undefined, priceOracle |-> Undefined]

AAVE_V3_ERROR ==
  [INSUFFICIENT_FUND |-> "Insufficient fund to supply",
   CANNOT_FIND_TOKEN_RESERVE |-> "Cannot find token reserve",
   RESERVE_PAUSED |-> "The reserve is paused",
   RESERVE_FROZEN |-> "The reserve is frozen",
   RESERVE_INACTIVE |-> "The reserve is inactive",
   SUPPLY_CAP_EXCEEDED |-> "Supply cap is exceeded",
   INSUFFICIENT_BALANCE_TO_WITHDRAW |-> "Cannot withdraw more than available balance",
   HEALTH_FACTOR_TOO_LOW |-> "Health factor is lower than the liquidation threshold",
   INVALID_LTV |-> "Invalid LTV",
   INSUFFICIENT_COLLATERAL |-> "Insufficient collateral to borrow",
   BORROW_DISABLED |-> "Borrowing is not enabled for this token",
   BORROW_CAP_EXCEEDED |-> "Borrow cap is exceeded",
   DEBT_NOT_FOUND |-> "User has no debt of this type",
   TOKEN_CANNOT_BE_COLLATERAL |-> "This token cannot be used as collateral"]

\* the messages the public methods throw themselves
ChainNotSupported == "This chain is not supported"
RequiresNonReadOnlyAccount == "This method requires a non read-only account"
TokenMustBeValid == "Token must be a valid EVM address"
OnBehalfMustBeValid == "On behalf address must be a valid EVM address"
ToMustBeValid == "To address must be a valid EVM address"
AmountMustBePositive == "Amount must be greater than 0"
SenderRejected == "the sender rejected the transaction"
InvalidCategoryId == "Invalid category ID"
\* the largest eMode category id
MaxCategoryId == 255
\* errors of the runtime and of the ABI encoder
RangeError == "RangeError: the number cannot be converted to a BigInt"
TypeError == "TypeError: this._account.sendTransaction is not a function"
InvalidArgument == "invalid BigNumberish value"
NoError == "none"


(***************************************************************************)
(* The execution of one handler.  A handler runs from its first line       *)
(* against the answers received so far (st.log); st.k of them have been    *)
(* consumed.                                                               *)
(* status: "run" while executing, "await" when the handler waits for an    *)
(* answer that is not in `log` yet (need is the request), "throw" and      *)
(* "return" when it has finished.  am, pool and ui are the adapter's       *)
(* memoized fields as the handler has written them so far.                 *)
(***************************************************************************)
NoVal == [none |-> TRUE]
NoResult == [none |-> TRUE]
NoArg == [none |-> TRUE]

NoRun ==
  [k |-> 0, status |-> "none", need |-> [fn |-> "none", arg |-> NoArg],
   err |-> NoError, result |-> NoResult, val |-> NoVal, log |-> <<>>,
   am |-> NoAddressMap, pool |-> Undefined, ui |-> Undefined]

\* the first line of a handler: nothing consumed, the memoized fields as the
\* adapter holds them
Start(answers) ==
  [NoRun EXCEPT !.status = "run", !.log = answers, !.am = addressMap,
                !.pool = poolContract, !.ui = uiPoolDataProviderContract]

Throw(st, e) == [st EXCEPT !.status = "throw", !.err = e]

Return(st, r) == [st EXCEPT !.status = "return", !.result = r]

\* `await collaborator.fn(arg)`: the answer is st.val afterwards
Await(st, fn, arg) ==
  IF st.status # "run" THEN st
  ELSE IF st.k < Len(st.log)
       THEN [st EXCEPT !.k = @ + 1, !.val = st.log[st.k + 1].val]
       ELSE [st EXCEPT !.status = "await", !.need = [fn |-> fn, arg |-> arg]]

\* x || y on an optional address
OrElse(x, y) == IF x = Undefined THEN y ELSE x

\* BigInt(x) and the ABI encoder's uint256 both reject a non-integer number
IsInteger(x) == x # Infinity

\* A handler is written as its steps, the last step first: each step takes
\* the execution as the step before left it and stops when the execution
\* has stopped (Stopped).
Stopped(st) == st.status # "run"

_getAddressMap_lookup_memoizingFallback(st) ==
  IF Stopped(st) THEN st ELSE
  IF st.val.chainId \notin DOMAIN AAVE_V3_ADDRESS_MAP
  THEN Throw([st EXCEPT !.am = AAVE_V3_ADDRESS_MAP[1]], ChainNotSupported)
  ELSE [st EXCEPT !.am = AAVE_V3_ADDRESS_MAP[st.val.chainId]]

_getAddressMap_lookup(st) ==
  IF Stopped(st) THEN st ELSE
  IF st.val.chainId \notin DOMAIN AAVE_V3_ADDRESS_MAP
  THEN Throw(st, ChainNotSupported)
  ELSE [st EXCEPT !.am = AAVE_V3_ADDRESS_MAP[st.val.chainId]]

_getAddressMap(st) ==
  IF Stopped(st) \/ st.am # NoAddressMap THEN st
  ELSE _getAddressMap_lookup(Await(st, "getNetwork", NoArg))

\* a Contract handle is represented by its target address
_getPoolContract_create(st) ==
  IF Stopped(st) THEN st ELSE [st EXCEPT !.pool = st.am.pool]

_getPoolContract(st) ==
  IF Stopped(st) \/ st.pool # Undefined THEN st
  ELSE _getPoolContract_create(_getAddressMap(st))

_getUiPoolDataProviderContract_create(st) ==
  IF Stopped(st) THEN st ELSE [st EXCEPT !.ui = st.am.uiPoolDataProvider]

_getUiPoolDataProviderContract(st) ==
  IF Stopped(st) \/ st.ui # Undefined THEN st
  ELSE _getUiPoolDataProviderContract_create(_getAddressMap(st))

\* contract.interface.encodeFunctionData(fn, args) wrapped in a transaction;
\* the transaction is st.val afterwards
_getApproveTransaction(st, token, spender, amount) ==
  IF Stopped(st) THEN st ELSE
  IF ~IsInteger(amount) THEN Throw(st, InvalidArgument) ELSE
  [st EXCEPT !.val =
     [to |-> token, fn |-> "approve", args |-> <<spender, amount>>, value |-> 0,
      gasLimit |-> 0]]

\* the reserve of USDT as the data provider reports it; an answer varies the
\* fields that the running method consults
DefaultReserve ==
  [underlyingAsset |-> USDT, aTokenAddress |-> "0xaUSDT",
   variableDebtTokenAddress |-> "0xvUSDT",
   isPaused |-> FALSE, isFrozen |-> FALSE, isActive |-> TRUE,
   borrowingEnabled |-> TRUE, baseLTVasCollateral |-> Big(8000),
   liquidityIndex |-> RAY, variableBorrowIndex |-> RAY,
   accruedToTreasury |-> 0, supplyCap |-> 40, borrowCap |-> 40, decimals |-> 0,
   totalScaledVariableDebt |-> 2]

\* the places of `token` in a list of reserves
ReservesOf(reserves, token) ==
  {i \in 1..Len(reserves) : reserves[i].underlyingAsset = token}

\* Array.prototype.find: the first of them
_getTokenReserveData_find(st, token) ==
  IF Stopped(st) THEN st ELSE
  IF ReservesOf(st.val.reserves, token) = {}
  THEN Throw(st, AAVE_V3_ERROR.CANNOT_FIND_TOKEN_RESERVE)
  ELSE [st EXCEPT !.val =
          st.val.reserves[CHOOSE i \in ReservesOf(st.val.reserves, token) :
                            \A j \in ReservesOf(st.val.reserves, token) : i <= j]]

_getTokenReserveData_read_onceForAll(st, token) ==
  IF Stopped(st) THEN st ELSE
  IF uiPoolDataProviderContract # Undefined
  THEN [st EXCEPT !.val = DefaultReserve]
  ELSE _getTokenReserveData_find(
         Await(st, "getReservesData",
               [contract |-> st.ui, provider |-> st.am.poolAddressesProvider]),
         token)

_getTokenReserveData_read(st, token) ==
  IF Stopped(st) THEN st ELSE
  _getTokenReserveData_find(
    Await(st, "getReservesData",
          [contract |-> st.ui, provider |-> st.am.poolAddressesProvider]),
    token)

\* the reserve of `token` is st.val afterwards
_getTokenReserveData(st, token) ==
  _getTokenReserveData_read(_getAddressMap(_getUiPoolDataProviderContract(st)), token)

GetAccountData_convert(st) ==
  IF Stopped(st) THEN st ELSE
  [st EXCEPT !.val =
     [totalCollateralBase |-> Number(st.val.data[1]),
      totalDebtBase |-> Number(st.val.data[2]),
      availableBorrowsBase |-> Number(st.val.data[3]),
      currentLiquidationThreshold |-> Number(st.val.data[4]),
      ltv |-> Number(st.val.data[5]),
      healthFactor |-> IF isBigIntInfinity(st.val.data[6])
                       THEN Infinity
                       ELSE Number(st.val.data[6])]]

GetAccountData_read(st, userAddress) ==
  IF Stopped(st) THEN st ELSE
  GetAccountData_convert(
    Await(st, "getUserAccountData", [contract |-> st.pool, user |-> userAddress]))

\* the account's data is st.val afterwards
GetAccountData(st, address) ==
  IF Stopped(st) THEN st ELSE
  IF address # Undefined /\ (address = ZeroAddress \/ ~isAddress(address))
  THEN Throw(st, OnBehalfMustBeValid)
  ELSE GetAccountData_read(_getPoolContract(st), OrElse(address, ME))

(***************************************************************************)
(* The validation routines.                                                *)
(***************************************************************************)
_validateSupply_cap_withoutTreasury(st, tokenReserve, options) ==
  IF Stopped(st) THEN st ELSE
  IF ~IsInteger(options.amount) THEN Throw(st, RangeError) ELSE
  IF rayMul(st.val.v, tokenReserve.liquidityIndex + options.amount)
       > tokenReserve.supplyCap * (10 ^ tokenReserve.decimals)
  THEN Throw(st, AAVE_V3_ERROR.SUPPLY_CAP_EXCEEDED)
  ELSE st

\* st.val.v is aTokenScaledSupply
_validateSupply_cap(st, tokenReserve, options) ==
  IF Stopped(st) THEN st ELSE
  IF ~IsInteger(options.amount) THEN Throw(st, RangeError) ELSE
  IF rayMul(st.val.v + tokenReserve.accruedToTreasury,
            tokenReserve.liquidityIndex + options.amount)
       > tokenReserve.supplyCap * (10 ^ tokenReserve.decimals)
  THEN Throw(st, AAVE_V3_ERROR.SUPPLY_CAP_EXCEEDED)
  ELSE st

_validateSupply_reserve_frozenFirst(st, options) ==
  IF Stopped(st) THEN st ELSE
  IF st.val.isFrozen THEN Throw(st, AAVE_V3_ERROR.RESERVE_FROZEN) ELSE
  IF st.val.isPaused THEN Throw(st, AAVE_V3_ERROR.RESERVE_PAUSED) ELSE
  IF ~st.val.isActive THEN Throw(st, AAVE_V3_ERROR.RESERVE_INACTIVE) ELSE
  _validateSupply_cap(
    Await(st, "scaledTotalSupply", [contract |-> st.val.aTokenAddress]),
    st.val, options)

\* st.val is tokenReserve
_validateSupply_reserve(st, options) ==
  IF Stopped(st) THEN st ELSE
  IF st.val.isPaused THEN Throw(st, AAVE_V3_ERROR.RESERVE_PAUSED) ELSE
  IF st.val.isFrozen THEN Throw(st, AAVE_V3_ERROR.RESERVE_FROZEN) ELSE
  IF ~st.val.isActive THEN Throw(st, AAVE_V3_ERROR.RESERVE_INACTIVE) ELSE
  _validateSupply_cap(
    Await(st, "scaledTotalSupply", [contract |-> st.val.aTokenAddress]),
    st.val, options)

\* st.val.balance is tokenBalance
_validateSupply_balance(st, options) ==
  IF Stopped(st) THEN st ELSE
  IF st.val.balance < options.amount THEN Throw(st, AAVE_V3_ERROR.INSUFFICIENT_FUND)
  ELSE _validateSupply_reserve(_getTokenReserveData(st, options.token), options)

_validateSupply(st, options) ==
  _validateSupply_balance(Await(st, "getTokenBalance", [token |-> options.token]), options)

_validateWithdraw_health_ltvFirst(st, tokenReserve) ==
  IF Stopped(st) THEN st ELSE
  IF st.val.ltv = 0 \/ StrictEquals(tokenReserve.baseLTVasCollateral, Num(0))
  THEN Throw(st, AAVE_V3_ERROR.INVALID_LTV) ELSE
  IF st.val.healthFactor < HEALTH_FACTOR_LIQUIDATION_THRESHOLD_IN_BASE_UNIT
  THEN Throw(st, AAVE_V3_ERROR.HEALTH_FACTOR_TOO_LOW)
  ELSE st

\* st.val is the account's data
_validateWithdraw_health(st, tokenReserve) ==
  IF Stopped(st) THEN st ELSE
  IF st.val.healthFactor < HEALTH_FACTOR_LIQUIDATION_THRESHOLD_IN_BASE_UNIT
  THEN Throw(st, AAVE_V3_ERROR.HEALTH_FACTOR_TOO_LOW) ELSE
  IF st.val.ltv = 0 \/ StrictEquals(tokenReserve.baseLTVasCollateral, Num(0))
  THEN Throw(st, AAVE_V3_ERROR.INVALID_LTV)
  ELSE st

_validateWithdraw_health_thenBalance(st, tokenReserve, options, userBalance) ==
  IF Stopped(st) THEN st ELSE
  IF ~IsInteger(options.amount) THEN Throw(st, RangeError) ELSE
  IF options.amount > userBalance
  THEN Throw(st, AAVE_V3_ERROR.INSUFFICIENT_BALANCE_TO_WITHDRAW)
  ELSE _validateWithdraw_health(st, tokenReserve)

_validateWithdraw_balance_accountDataFirst(st, tokenReserve, options) ==
  IF Stopped(st) THEN st ELSE
  _validateWithdraw_health_thenBalance(
    GetAccountData(st, Undefined), tokenReserve, options,
    rayMul(st.val.v, tokenReserve.liquidityIndex))

\* st.val.v is aTokenScaledBalance; userBalance is its rayMul by the index
_validateWithdraw_balance(st, tokenReserve, options) ==
  IF Stopped(st) THEN st ELSE
  IF ~IsInteger(options.amount) THEN Throw(st, RangeError) ELSE
  IF options.amount > rayMul(st.val.v, tokenReserve.liquidityIndex)
  THEN Throw(st, AAVE_V3_ERROR.INSUFFICIENT_BALANCE_TO_WITHDRAW)
  ELSE _validateWithdraw_health(GetAccountData(st, Undefined), tokenReserve)

\* st.val is tokenReserve
_validateWithdraw_reserve(st, options, address) ==
  IF Stopped(st) THEN st ELSE
  IF st.val.isPaused THEN Throw(st, AAVE_V3_ERROR.RESERVE_PAUSED) ELSE
  IF st.val.isFrozen THEN Throw(st, AAVE_V3_ERROR.RESERVE_FROZEN) ELSE
  IF ~st.val.isActive THEN Throw(st, AAVE_V3_ERROR.RESERVE_INACTIVE) ELSE
  _validateWithdraw_balance(
    Await(st, "scaledBalanceOf", [contract |-> st.val.aTokenAddress, user |-> address]),
    st.val, options)

_validateWithdraw(st, options) ==
  _validateWithdraw_reserve(_getTokenReserveData(st, options.token), options, ME)

_validateBorrow_collateral_withoutDebt(st, accountData, tokenReserve, options) ==
  IF Stopped(st) THEN st ELSE
  IF percentDiv((options.amount * st.val.v) \div (10 ^ tokenReserve.decimals),
                accountData.ltv)
       > accountData.totalCollateralBase
  THEN Throw(st, AAVE_V3_ERROR.INSUFFICIENT_COLLATERAL)
  ELSE st

\* st.val.v is tokenPrice
_validateBorrow_collateral(st, accountData, tokenReserve, options) ==
  IF Stopped(st) THEN st ELSE
  IF percentDiv(accountData.totalDebtBase
                  + (options.amount * st.val.v) \div (10 ^ tokenReserve.decimals),
                accountData.ltv)
       > accountData.totalCollateralBase
  THEN Throw(st, AAVE_V3_ERROR.INSUFFICIENT_COLLATERAL)
  ELSE st

\* st.val is tokenReserve
_validateBorrow_reserve(st, accountData, options) ==
  IF Stopped(st) THEN st ELSE
  IF st.val.isPaused THEN Throw(st, AAVE_V3_ERROR.RESERVE_PAUSED) ELSE
  IF st.val.isFrozen THEN Throw(st, AAVE_V3_ERROR.RESERVE_FROZEN) ELSE
  IF ~st.val.isActive THEN Throw(st, AAVE_V3_ERROR.RESERVE_INACTIVE) ELSE
  IF ~st.val.borrowingEnabled THEN Throw(st, AAVE_V3_ERROR.BORROW_DISABLED) ELSE
  IF ~IsInteger(options.amount) THEN Throw(st, RangeError) ELSE
  IF rayMul(st.val.totalScaledVariableDebt, st.val.variableBorrowIndex) + options.amount
       > st.val.borrowCap * (10 ^ st.val.decimals)
  THEN Throw(st, AAVE_V3_ERROR.BORROW_CAP_EXCEEDED) ELSE
  _validateBorrow_collateral(
    Await(st, "getAssetPrice", [contract |-> st.am.priceOracle, token |-> options.token]),
    accountData, st.val, options)

_validateBorrow_account_healthFactorFirst(st, options) ==
  IF Stopped(st) THEN st ELSE
  IF st.val.healthFactor < HEALTH_FACTOR_LIQUIDATION_THRESHOLD_IN_BASE_UNIT
  THEN Throw(st, AAVE_V3_ERROR.HEALTH_FACTOR_TOO_LOW) ELSE
  IF st.val.ltv = 0 THEN Throw(st, AAVE_V3_ERROR.INSUFFICIENT_COLLATERAL) ELSE
  IF st.val.totalCollateralBase = 0
  THEN Throw(st, AAVE_V3_ERROR.INSUFFICIENT_COLLATERAL) ELSE
  _validateBorrow_reserve(_getAddressMap(_getTokenReserveData(st, options.token)),
                          st.val, options)

\* st.val is the account's data
_validateBorrow_account(st, options) ==
  IF Stopped(st) THEN st ELSE
  IF st.val.ltv = 0 THEN Throw(st, AAVE_V3_ERROR.INSUFFICIENT_COLLATERAL) ELSE
  IF st.val.totalCollateralBase = 0
  THEN Throw(st, AAVE_V3_ERROR.INSUFFICIENT_COLLATERAL) ELSE
  IF st.val.healthFactor < HEALTH_FACTOR_LIQUIDATION_THRESHOLD_IN_BASE_UNIT
  THEN Throw(st, AAVE_V3_ERROR.HEALTH_FACTOR_TOO_LOW) ELSE
  _validateBorrow_reserve(_getAddressMap(_getTokenReserveData(st, options.token)),
                          st.val, options)

_validateBorrow(st, options) ==
  _validateBorrow_account(GetAccountData(st, options.onBehalfOf), options)

_getUserDebtByToken_project_unprojected(st, tokenReserve) ==
  IF Stopped(st) THEN st ELSE [st EXCEPT !.val = [v |-> st.val.v]]

\* st.val.v is the scaled balance of the variable debt token
_getUserDebtByToken_project(st, tokenReserve) ==
  IF Stopped(st) THEN st ELSE
  [st EXCEPT !.val = [v |-> rayMul(st.val.v, tokenReserve.variableBorrowIndex)]]

\* the projected debt is st.val.v afterwards
_getUserDebtByToken(st, tokenReserve, address) ==
  _getUserDebtByToken_project(
    Await(st, "scaledBalanceOf",
          [contract |-> tokenReserve.variableDebtTokenAddress, user |-> address]),
    tokenReserve)

\* st.val.v is userDebt
_validateRepay_debt(st) ==
  IF Stopped(st) THEN st ELSE
  IF st.val.v = 0 THEN Throw(st, AAVE_V3_ERROR.DEBT_NOT_FOUND) ELSE st

\* st.val is tokenReserve
_validateRepay_reserve(st, options, address) ==
  IF Stopped(st) THEN st ELSE
  IF st.val.isPaused THEN Throw(st, AAVE_V3_ERROR.RESERVE_PAUSED) ELSE
  IF ~st.val.isActive THEN Throw(st, AAVE_V3_ERROR.RESERVE_INACTIVE) ELSE
  _validateRepay_debt(
    _getUserDebtByToken(st, st.val, OrElse(options.onBehalfOf, address)))

_validateRepay(st, options) ==
  _validateRepay_reserve(_getTokenReserveData(st, options.token), options, ME)

\* st.val is tokenReserve
_validateUseReserveAsCollateral_ltv(st, useAsCollateral) ==
  IF Stopped(st) THEN st ELSE
  IF useAsCollateral /\ StrictEquals(st.val.baseLTVasCollateral, Num(0))
  THEN Throw(st, AAVE_V3_ERROR.TOKEN_CANNOT_BE_COLLATERAL)
  ELSE st

_validateUseReserveAsCollateral(st, token, useAsCollateral) ==
  _validateUseReserveAsCollateral_ltv(_getTokenReserveData(st, token), useAsCollateral)


(***************************************************************************)
(* The transaction builders.  The built transaction is st.val afterwards.  *)
(***************************************************************************)
_getSupplyTransaction_encode_toCallerOnly(st, options, address) ==
  IF Stopped(st) THEN st ELSE
  IF ~IsInteger(options.amount) THEN Throw(st, InvalidArgument) ELSE
  [st EXCEPT !.val =
     [to |-> st.pool, fn |-> "supply",
      args |-> <<options.token, options.amount, address, 0>>,
      value |-> 0, gasLimit |-> DEFAULT_GAS_LIMIT]]

_getSupplyTransaction_encode(st, options, address) ==
  IF Stopped(st) THEN st ELSE
  IF ~IsInteger(options.amount) THEN Throw(st, InvalidArgument) ELSE
  [st EXCEPT !.val =
     [to |-> st.pool, fn |-> "supply",
      args |-> <<options.token, options.amount, OrElse(options.onBehalfOf, address), 0>>,
      value |-> 0, gasLimit |-> DEFAULT_GAS_LIMIT]]

_getSupplyTransaction(st, options) ==
  _getSupplyTransaction_encode(_getPoolContract(st), options, ME)

_getWithdrawTransaction_encode(st, options, address) ==
  IF Stopped(st) THEN st ELSE
  [st EXCEPT !.val =
     [to |-> st.pool, fn |-> "withdraw",
      args |-> <<options.token,
                 IF options.amount = Infinity THEN MaxInt256 ELSE options.amount,
                 OrElse(options.to, address)>>,
      value |-> 0, gasLimit |-> DEFAULT_GAS_LIMIT]]

_getWithdrawTransaction(st, options) ==
  _getWithdrawTransaction_encode(_getPoolContract(st), options, ME)

_getBorrowTransaction_encode(st, options, address) ==
  IF Stopped(st) THEN st ELSE
  IF ~IsInteger(options.amount) THEN Throw(st, InvalidArgument) ELSE
  [st EXCEPT !.val =
     [to |-> st.pool, fn |-> "borrow",
      args |-> <<options.token, options.amount, 2, 0, OrElse(options.onBehalfOf, address)>>,
      value |-> 0, gasLimit |-> DEFAULT_GAS_LIMIT]]

_getBorrowTransaction(st, options) ==
  _getBorrowTransaction_encode(_getPoolContract(st), options, ME)

_getRepayTransaction_encode(st, options, address, amount) ==
  IF Stopped(st) THEN st ELSE
  [st EXCEPT !.val =
     [to |-> st.pool, fn |-> "repay",
      args |-> <<options.token, amount, 2, OrElse(options.onBehalfOf, address)>>,
      value |-> 0, gasLimit |-> DEFAULT_GAS_LIMIT]]

\* st.val.v is userDebt
_getRepayTransaction_debt(st, options, address) ==
  IF Stopped(st) THEN st ELSE
  _getRepayTransaction_encode(st, options, address, st.val.v + 100)

\* st.val is tokenReserve
_getRepayTransaction_reserve(st, options, address) ==
  IF Stopped(st) THEN st ELSE
  _getRepayTransaction_debt(_getUserDebtByToken(st, st.val, options.onBehalfOf),
                            options, address)

_getRepayTransaction_amount(st, options, address) ==
  IF Stopped(st) THEN st ELSE
  IF options.amount = Infinity
  THEN IF options.onBehalfOf # Undefined
       THEN _getRepayTransaction_reserve(_getTokenReserveData(st, options.token),
                                         options, address)
       ELSE _getRepayTransaction_encode(st, options, address, MaxInt256)
  ELSE _getRepayTransaction_encode(st, options, address, options.amount)

_getRepayTransaction(st, options) ==
  _getRepayTransaction_amount(_getPoolContract(st), options, ME)

(***************************************************************************)
(* The transaction sender: this._account.sendTransaction(tx, config) and   *)
(* quoteSendTransaction(tx, config).  txs holds the transaction, or the    *)
(* transactions of the array when batch is TRUE.  A read-only account has  *)
(* no sendTransaction method.                                              *)
(***************************************************************************)
\* the sender's promise is rejected: the await throws what the sender threw
Rejection == [rejected |-> TRUE]

sendTransaction_settle(st) ==
  IF Stopped(st) THEN st ELSE
  IF st.val = Rejection THEN Throw(st, SenderRejected) ELSE st

sendTransaction(st, txs, batch, config) ==
  IF Stopped(st) THEN st
  ELSE IF accountKind = "readonly" THEN Throw(st, TypeError)
  ELSE sendTransaction_settle(
         Await(st, "sendTransaction", [txs |-> txs, batch |-> batch, config |-> config]))

quoteSendTransaction(st, txs, batch, config) ==
  Await(st, "quoteSendTransaction", [txs |-> txs, batch |-> batch, config |-> config])

IsSigner == accountKind \in {"evm", "erc4337"}

InvalidOptionalAddress_zeroAccepted(a) == a # Undefined /\ ~isAddress(a)

InvalidOptionalAddress(a) == a # Undefined /\ (a = ZeroAddress \/ ~isAddress(a))

\* `return await sender(...)`: the answer is the result
ReturnAnswer(st) == IF Stopped(st) THEN st ELSE Return(st, st.val)

(***************************************************************************)
(* The public methods.                                                     *)
(***************************************************************************)
\* the collateral-setting call on the pool
SetUseReserveTx(pool, token, useAsCollateral) ==
  [to |-> pool, fn |-> "setUserUseReserveAsCollateral",
   args |-> <<token, useAsCollateral>>, value |-> 0, gasLimit |-> DEFAULT_GAS_LIMIT]

\* st.val is the sender's answer to the second transaction
Supply_result(st, approveFee) ==
  IF Stopped(st) THEN st ELSE
  Return(st, [fee |-> st.val.fee + approveFee, hash |-> st.val.hash])

\* st.val is the sender's answer to the approval
Supply_sendSupply(st, supplyTx) ==
  IF Stopped(st) THEN st ELSE
  Supply_result(sendTransaction(st, <<supplyTx>>, FALSE, Undefined), st.val.fee)

Supply_send_separately(st, approveTx, config) ==
  IF Stopped(st) THEN st ELSE
  Supply_sendSupply(sendTransaction(st, <<approveTx>>, FALSE, Undefined), st.val)

\* st.val is supplyTx
Supply_send(st, approveTx, config) ==
  IF Stopped(st) THEN st ELSE
  IF accountKind = "erc4337"
  THEN ReturnAnswer(sendTransaction(st, <<approveTx, st.val>>, TRUE, config))
  ELSE Supply_sendSupply(sendTransaction(st, <<approveTx>>, FALSE, Undefined), st.val)

\* st.val is approveTx
Supply_buildSupply(st, options, config) ==
  IF Stopped(st) THEN st ELSE
  Supply_send(_getSupplyTransaction(st, options), st.val, config)

Supply_buildApprove(st, options, config) ==
  IF Stopped(st) THEN st ELSE
  Supply_buildSupply(
    _getApproveTransaction(st, options.token, st.am.pool, options.amount),
    options, config)

Supply(st0, options, config) ==
  IF ~IsSigner THEN Throw(st0, RequiresNonReadOnlyAccount) ELSE
  IF ~isAddress(options.token) THEN Throw(st0, TokenMustBeValid) ELSE
  IF InvalidOptionalAddress(options.onBehalfOf) THEN Throw(st0, OnBehalfMustBeValid) ELSE
  IF options.amount <= 0 THEN Throw(st0, AmountMustBePositive) ELSE
  Supply_buildApprove(_getAddressMap(_validateSupply(st0, options)), options, config)

\* st.val is the sender's answer to the second transaction
QuoteSupply_result(st, approveFee) ==
  IF Stopped(st) THEN st ELSE Return(st, [fee |-> approveFee + st.val.fee])

\* st.val is the sender's answer to the approval.  Promise.all requests
\* both quotes before either is answered; the sender answers them in the
\* order of the requests.
QuoteSupply_quoteSupply(st, supplyTx) ==
  IF Stopped(st) THEN st ELSE
  QuoteSupply_result(quoteSendTransaction(st, <<supplyTx>>, FALSE, Undefined), st.val.fee)

\* st.val is supplyTx
QuoteSupply_quote(st, approveTx, config) ==
  IF Stopped(st) THEN st ELSE
  IF accountKind = "erc4337"
  THEN ReturnAnswer(quoteSendTransaction(st, <<approveTx, st.val>>, TRUE, config))
  ELSE QuoteSupply_quoteSupply(
         quoteSendTransaction(st, <<approveTx>>, FALSE, Undefined), st.val)

\* st.val is approveTx
QuoteSupply_buildSupply(st, options, config) ==
  IF Stopped(st) THEN st ELSE
  QuoteSupply_quote(_getSupplyTransaction(st, options), st.val, config)

QuoteSupply_buildApprove(st, options, config) ==
  IF Stopped(st) THEN st ELSE
  QuoteSupply_buildSupply(
    _getApproveTransaction(st, options.token, st.am.pool, options.amount),
    options, config)

QuoteSupply(st0, options, config) ==
  IF ~isAddress(options.token) THEN Throw(st0, TokenMustBeValid) ELSE
  IF InvalidOptionalAddress(options.onBehalfOf) THEN Throw(st0, OnBehalfMustBeValid) ELSE
  IF options.amount <= 0 THEN Throw(st0, AmountMustBePositive) ELSE
  QuoteSupply_buildApprove(_getAddressMap(st0), options, config)

\* st.val is the transaction; an ERC-4337 account passes the config on
SendOne(st, config) ==
  IF Stopped(st) THEN st ELSE
  IF accountKind = "erc4337"
  THEN ReturnAnswer(sendTransaction(st, <<st.val>>, FALSE, config))
  ELSE ReturnAnswer(sendTransaction(st, <<st.val>>, FALSE, Undefined))

QuoteOne(st, config) ==
  IF Stopped(st) THEN st ELSE
  IF accountKind = "erc4337"
  THEN ReturnAnswer(quoteSendTransaction(st, <<st.val>>, FALSE, config))
  ELSE ReturnAnswer(quoteSendTransaction(st, <<st.val>>, FALSE, Undefined))

Withdraw(st0, options, config) ==
  IF InvalidOptionalAddress(options.to) THEN Throw(st0, ToMustBeValid) ELSE
  IF ~isAddress(options.token) THEN Throw(st0, TokenMustBeValid) ELSE
  IF options.amount <= 0 THEN Throw(st0, AmountMustBePositive) ELSE
  SendOne(_getWithdrawTransaction(_validateWithdraw(st0, options), options), config)

QuoteWithdraw_validating(st0, options, config) ==
  IF InvalidOptionalAddress(options.to) THEN Throw(st0, ToMustBeValid) ELSE
  IF ~isAddress(options.token) THEN Throw(st0, TokenMustBeValid) ELSE
  IF options.amount <= 0 THEN Throw(st0, AmountMustBePositive) ELSE
  QuoteOne(_getWithdrawTransaction(_validateWithdraw(st0, options), options), config)

QuoteWithdraw(st0, options, config) ==
  IF InvalidOptionalAddress(options.to) THEN Throw(st0, ToMustBeValid) ELSE
  IF ~isAddress(options.token) THEN Throw(st0, TokenMustBeValid) ELSE
  IF options.amount <= 0 THEN Throw(st0, AmountMustBePositive) ELSE
  QuoteOne(_getWithdrawTransaction(st0, options), config)

Borrow(st0, options, config) ==
  IF InvalidOptionalAddress(options.onBehalfOf) THEN Throw(st0, OnBehalfMustBeValid) ELSE
  IF ~isAddress(options.token) THEN Throw(st0, TokenMustBeValid) ELSE
  IF options.amount <= 0 THEN Throw(st0, AmountMustBePositive) ELSE
  SendOne(_getBorrowTransaction(_validateBorrow(st0, options), options), config)

QuoteBorrow(st0, options, config) ==
  IF InvalidOptionalAddress(options.onBehalfOf) THEN Throw(st0, OnBehalfMustBeValid) ELSE
  IF ~isAddress(options.token) THEN Throw(st0, TokenMustBeValid) ELSE
  IF options.amount <= 0 THEN Throw(st0, AmountMustBePositive) ELSE
  QuoteOne(_getBorrowTransaction(st0, options), config)

\* st.val is the sender's answer to the second transaction
Repay_result(st, approveFee) ==
  IF Stopped(st) THEN st ELSE
  Return(st, [hash |-> st.val.hash, fee |-> approveFee + st.val.fee])

\* st.val is the sender's answer to the approval
Repay_sendRepay(st, repayTx) ==
  IF Stopped(st) THEN st ELSE
  Repay_result(sendTransaction(st, <<repayTx>>, FALSE, Undefined), st.val.fee)

Repay_send_ignoringApprovalFailure(st, approveTx, config) ==
  IF Stopped(st) THEN st ELSE
  IF accountKind = "erc4337"
  THEN ReturnAnswer(sendTransaction(st, <<approveTx, st.val>>, TRUE, config))
  ELSE Repay_sendRepay(
         Await(st, "sendTransaction",
               [txs |-> <<approveTx>>, batch |-> FALSE, config |-> Undefined]),
         st.val)

\* st.val is repayTx
Repay_send(st, approveTx, config) ==
  IF Stopped(st) THEN st ELSE
  IF accountKind = "erc4337"
  THEN ReturnAnswer(sendTransaction(st, <<approveTx, st.val>>, TRUE, config))
  ELSE Repay_sendRepay(sendTransaction(st, <<approveTx>>, FALSE, Undefined), st.val)

\* st.val is approveTx
Repay_buildRepay(st, options, config) ==
  IF Stopped(st) THEN st ELSE
  Repay_send(_getRepayTransaction(st, options), st.val, config)

Repay_buildApprove(st, options, config) ==
  IF Stopped(st) THEN st ELSE
  Repay_buildRepay(
    _getApproveTransaction(st, options.token, st.am.pool, options.amount),
    options, config)

Repay(st0, options, config) ==
  IF ~IsSigner THEN Throw(st0, RequiresNonReadOnlyAccount) ELSE
  IF InvalidOptionalAddress(options.onBehalfOf) THEN Throw(st0, OnBehalfMustBeValid) ELSE
  IF options.amount <= 0 THEN Throw(st0, AmountMustBePositive) ELSE
  IF ~isAddress(options.token) THEN Throw(st0, TokenMustBeValid) ELSE
  Repay_buildApprove(_getAddressMap(_validateRepay(st0, options)), options, config)

\* st.val is the sender's answer to the second transaction
QuoteRepay_result(st, approveFee) ==
  IF Stopped(st) THEN st ELSE Return(st, [fee |-> approveFee + st.val.fee])

\* st.val is the sender's answer to the approval
QuoteRepay_quoteRepay(st, repayTx) ==
  IF Stopped(st) THEN st ELSE
  QuoteRepay_result(quoteSendTransaction(st, <<repayTx>>, FALSE, Undefined), st.val.fee)

\* st.val is repayTx
QuoteRepay_quote(st, approveTx, config) ==
  IF Stopped(st) THEN st ELSE
  IF accountKind = "erc4337"
  THEN ReturnAnswer(quoteSendTransaction(st, <<approveTx, st.val>>, TRUE, config))
  ELSE QuoteRepay_quoteRepay(
         quoteSendTransaction(st, <<approveTx>>, FALSE, Undefined), st.val)

\* st.val is approveTx
QuoteRepay_buildRepay(st, options, config) ==
  IF Stopped(st) THEN st ELSE
  QuoteRepay_quote(_getRepayTransaction(st, options), st.val, config)

QuoteRepay_buildApprove(st, options, config) ==
  IF Stopped(st) THEN st ELSE
  QuoteRepay_buildRepay(
    _getApproveTransaction(st, options.token, st.am.pool, options.amount),
    options, config)

QuoteRepay(st0, options, config) ==
  IF InvalidOptionalAddress(options.onBehalfOf) THEN Throw(st0, OnBehalfMustBeValid) ELSE
  IF options.amount <= 0 THEN Throw(st0, AmountMustBePositive) ELSE
  IF ~isAddress(options.token) THEN Throw(st0, TokenMustBeValid) ELSE
  QuoteRepay_buildApprove(_getAddressMap(st0), options, config)

SetUseReserveAsCollateral_returnSent(st, sent) ==
  IF Stopped(st) THEN st ELSE Return(st, sent)

\* st.val is the sender's answer
SetUseReserveAsCollateral_validateLast(st, token, useAsCollateral) ==
  IF Stopped(st) THEN st ELSE
  SetUseReserveAsCollateral_returnSent(
    _validateUseReserveAsCollateral(st, token, useAsCollateral), st.val)

SetUseReserveAsCollateral_sendFirst(st, token, useAsCollateral, config) ==
  IF Stopped(st) THEN st ELSE
  SetUseReserveAsCollateral_validateLast(
    sendTransaction(st, <<SetUseReserveTx(st.pool, token, useAsCollateral)>>, FALSE,
                    IF accountKind = "erc4337" THEN config ELSE Undefined),
    token, useAsCollateral)

SetUseReserveAsCollateral_sendThenValidate(st0, token, useAsCollateral, config) ==
  IF ~IsSigner THEN Throw(st0, RequiresNonReadOnlyAccount) ELSE
  IF ~isAddress(token) THEN Throw(st0, TokenMustBeValid) ELSE
  SetUseReserveAsCollateral_sendFirst(_getPoolContract(st0), token, useAsCollateral, config)

\* the pool contract is st.pool
SetUseReserveAsCollateral_send(st, token, useAsCollateral, config) ==
  IF Stopped(st) THEN st ELSE
  IF accountKind = "erc4337"
  THEN ReturnAnswer(sendTransaction(
         st, <<SetUseReserveTx(st.pool, token, useAsCollateral)>>, FALSE, config))
  ELSE ReturnAnswer(sendTransaction(
         st, <<SetUseReserveTx(st.pool, token, useAsCollateral)>>, FALSE, Undefined))

SetUseReserveAsCollateral(st0, token, useAsCollateral, config) ==
  IF ~IsSigner THEN Throw(st0, RequiresNonReadOnlyAccount) ELSE
  IF ~isAddress(token) THEN Throw(st0, TokenMustBeValid) ELSE
  SetUseReserveAsCollateral_send(
    _getPoolContract(_validateUseReserveAsCollateral(st0, token, useAsCollateral)),
    token, useAsCollateral, config)

\* setUserEMode is declared, documented and tested in the repository; its
\* body is taken from the specification of the public operations
SetUserEModeTx(pool, categoryId) ==
  [to |-> pool, fn |-> "setUserEMode", args |-> <<categoryId>>, value |-> 0,
   gasLimit |-> 0]

\* the pool contract is st.pool
SetUserEMode_send(st, categoryId, config) ==
  IF Stopped(st) THEN st ELSE
  ReturnAnswer(sendTransaction(
    st, <<SetUserEModeTx(st.pool, categoryId)>>, FALSE,
    IF accountKind = "erc4337" THEN config ELSE Undefined))

SetUserEMode_lowerBoundOnly(st0, categoryId, config) ==
  IF categoryId < 0 THEN Throw(st0, InvalidCategoryId) ELSE
  IF ~IsSigner THEN Throw(st0, RequiresNonReadOnlyAccount) ELSE
  SetUserEMode_send(_getPoolContract(st0), categoryId, config)

SetUserEMode(st0, categoryId, config) ==
  IF categoryId < 0 \/ categoryId > MaxCategoryId
  THEN Throw(st0, InvalidCategoryId) ELSE
  IF ~IsSigner THEN Throw(st0, RequiresNonReadOnlyAccount) ELSE
  SetUserEMode_send(_getPoolContract(st0), categoryId, config)

(***************************************************************************)
(* Calls and the answers of the collaborators.                             *)
(***************************************************************************)
CategoryIds == {-1, 0, 128, MaxCategoryId, MaxCategoryId + 1, 1024}
Tokens == {USDT, DAI, ZeroAddress, NotAnAddress}
OptionalAddresses == {Undefined, BOB, ZeroAddress, NotAnAddress}
Amounts == (-1..MaxAmount) \cup {Infinity}
\* the execution config is an option of ERC-4337 accounts only
Configs == IF accountKind = "erc4337" THEN {Undefined, "paymasterToken"} ELSE {Undefined}
ChainIds == SupportedChains \cup {99}

NoOptions == [token |-> Undefined, amount |-> 0, onBehalfOf |-> Undefined, to |-> Undefined]

NoCall ==
  [op |-> "none", options |-> NoOptions, useAsCollateral |-> FALSE,
   address |-> Undefined, categoryId |-> 0, config |-> Undefined]

OnBehalfOfMethods == {"supply", "quoteSupply", "borrow", "quoteBorrow", "repay", "quoteRepay"}
ToMethods == {"withdraw", "quoteWithdraw"}

Calls ==
  {[NoCall EXCEPT !.op = m, !.config = c,
                  !.options = [token |-> t, amount |-> a, onBehalfOf |-> o, to |-> Undefined]]
     : m \in OnBehalfOfMethods, c \in Configs, t \in Tokens, a \in Amounts,
       o \in OptionalAddresses}
  \cup
  {[NoCall EXCEPT !.op = m, !.config = c,
                  !.options = [token |-> t, amount |-> a, onBehalfOf |-> Undefined, to |-> o]]
     : m \in ToMethods, c \in Configs, t \in Tokens, a \in Amounts,
       o \in OptionalAddresses}
  \cup
  {[NoCall EXCEPT !.op = "getAccountData", !.address = o] : o \in OptionalAddresses}
  \cup
  {[NoCall EXCEPT !.op = "setUserEMode", !.config = c, !.categoryId = id]
     : c \in Configs, id \in CategoryIds}
  \cup
  {[NoCall EXCEPT !.op = "setUseReserveAsCollateral", !.config = c,
                  !.options = [NoOptions EXCEPT !.token = t], !.useAsCollateral = u]
     : c \in Configs, t \in Tokens, u \in BOOLEAN}

\* ethers decodes a uint256 to a bigint; the repository's tests also answer
\* baseLTVasCollateral with a number
BaseLtvs == {Big(0), Num(0), Big(8000)}
LiquidityIndexes == {RAY, RAY + RAY \div 2 - 1}
BorrowIndexes == {RAY \div 2 - 1, RAY}
Caps == {0, 4}
Decimals == {0, 1}

TokenBalances == {0, 2, MaxAmount}

\* the reserves an answer of getReservesData reports to method op: a reserve
\* that a flag blocks is reported with figures that violate the later rules
\* too, a reserve that no flag blocks with every combination of figures
Blocked(op, r) ==
  \/ r.isPaused
  \/ ~r.isActive
  \/ (r.isFrozen /\ op \notin {"repay", "quoteRepay"})
  \/ (~r.borrowingEnabled /\ op = "borrow")

Flagged(op) ==
  {r \in {[DefaultReserve EXCEPT !.isPaused = p, !.isFrozen = f, !.isActive = a,
                                 !.borrowingEnabled = be,
                                 !.supplyCap = 0, !.borrowCap = 0,
                                 !.accruedToTreasury = 1,
                                 !.baseLTVasCollateral = Num(0)]
             : p \in BOOLEAN, f \in BOOLEAN, a \in BOOLEAN,
               be \in IF op = "borrow" THEN BOOLEAN ELSE {TRUE}}
     : Blocked(op, r)}

Reserves(op) ==
  CASE op = "supply" ->
         Flagged(op) \cup
         {[DefaultReserve EXCEPT !.accruedToTreasury = acc, !.liquidityIndex = li,
                                 !.supplyCap = cap, !.decimals = d]
            : acc \in {0, 1}, li \in LiquidityIndexes, cap \in Caps, d \in Decimals}
    [] op = "withdraw" ->
         Flagged(op) \cup
         {[DefaultReserve EXCEPT !.liquidityIndex = li, !.baseLTVasCollateral = ltv]
            : li \in LiquidityIndexes, ltv \in BaseLtvs}
    [] op = "borrow" ->
         Flagged(op) \cup
         {[DefaultReserve EXCEPT !.borrowCap = cap, !.decimals = d]
            : cap \in Caps, d \in Decimals}
    [] op \in {"repay", "quoteRepay"} ->
         Flagged(op) \cup
         {[DefaultReserve EXCEPT !.isFrozen = f, !.variableBorrowIndex = vbi]
            : f \in BOOLEAN, vbi \in BorrowIndexes}
    [] op = "setUseReserveAsCollateral" ->
         {[DefaultReserve EXCEPT !.baseLTVasCollateral = ltv] : ltv \in BaseLtvs}
    [] OTHER -> {DefaultReserve}

HealthFactors == {96, 99, 100, MAX_UINT256}
\* basis points that Number() holds exactly
Ltvs == {0, 2 ^ 13}

AccountDatas(op) ==
  CASE op \in {"borrow"} ->
         {<<tc, td, 0, 0, ltv, hf>>
            : tc \in {0, 20}, td \in {0, 10}, ltv \in Ltvs, hf \in HealthFactors}
    [] op = "getAccountData" ->
         {<<0, 0, 0, 0, 0, 0>>}
           \cup {<<tc, 12, 13, 14, 15, hf>>
                   : tc \in {11, 33}, hf \in HealthFactors \cup {MaxInt256}}
    [] OTHER ->
         {<<0, 0, 0, 0, ltv, hf>> : ltv \in Ltvs, hf \in HealthFactors}

(***************************************************************************)
(* The state machine.                                                      *)
(***************************************************************************)
TaskIds == 1..MaxTasks

Getters == {"_getAddressMap", "_getPoolContract", "_getUiPoolDataProviderContract"}

\* an execution of a getter: the getter, where it stands, and the registry
\* entry _getAddressMap handed it (its local `addressMap`)
IdleTask == [fn |-> "none", at |-> "idle", am |-> NoAddressMap]

NoOutcome == [err |-> NoError, result |-> NoResult]

\* no operation of a concurrent caller is in flight
NoOperation == [call |-> NoCall, log |-> <<>>]

\* a run that has not thrown returns the value it holds
Finish(st) == IF st.status = "run" THEN Return(st, st.val) ELSE st

\* the method of call c, executed from its first line against the answers
Run(c, st0) ==
  CASE c.op = "supply" -> Supply(st0, c.options, c.config)
    [] c.op = "quoteSupply" -> QuoteSupply(st0, c.options, c.config)
    [] c.op = "withdraw" -> Withdraw(st0, c.options, c.config)
    [] c.op = "quoteWithdraw" -> QuoteWithdraw(st0, c.options, c.config)
    [] c.op = "borrow" -> Borrow(st0, c.options, c.config)
    [] c.op = "quoteBorrow" -> QuoteBorrow(st0, c.options, c.config)
    [] c.op = "repay" -> Repay(st0, c.options, c.config)
    [] c.op = "quoteRepay" -> QuoteRepay(st0, c.options, c.config)
    [] c.op = "getAccountData" -> Finish(GetAccountData(st0, c.address))
    [] c.op = "setUseReserveAsCollateral" ->
         SetUseReserveAsCollateral(st0, c.options.token, c.useAsCollateral, c.config)
    [] c.op = "setUserEMode" -> SetUserEMode(st0, c.categoryId, c.config)
    [] OTHER -> NoRun

Exec(c, answers) == Run(c, Start(answers))

Init ==
  /\ accountKind \in {"evm", "erc4337", "readonly"}
  /\ addressMap = NoAddressMap
  /\ poolContract = Undefined
  /\ uiPoolDataProviderContract = Undefined
  /\ pc = "idle"
  /\ call = NoCall
  /\ log = <<>>
  /\ run = NoRun
  /\ outcome = NoOutcome
  /\ tasks = [t \in TaskIds |-> IdleTask]
  /\ inFlight = [t \in TaskIds |-> NoOperation]
  /\ allowance = 0

\* a caller invokes a public method; the method runs up to its first request
Call ==
  /\ pc = "idle"
  /\ \E c \in Calls : call' = c /\ run' = Exec(c, <<>>)
  /\ pc' = "running"
  /\ UNCHANGED <<accountKind, addressMap, poolContract, uiPoolDataProviderContract,
                 log, outcome, tasks, inFlight, allowance>>

\* a collaborator answers the request the running method awaits; the method
\* runs on to its next request or to its end
Answer(fn, val) ==
  /\ pc = "running"
  /\ run.status = "await"
  /\ run.need.fn = fn
  /\ LET answers == Append(log, [fn |-> fn, arg |-> run.need.arg, val |-> val]) IN
       /\ log' = answers
       /\ run' = Exec(call, answers)
  /\ UNCHANGED <<accountKind, addressMap, poolContract, uiPoolDataProviderContract,
                 pc, call, outcome, tasks, inFlight, allowance>>

getNetwork == \E id \in ChainIds : Answer("getNetwork", [chainId |-> id])

getTokenBalance == \E b \in TokenBalances : Answer("getTokenBalance", [balance |-> b])

getReservesData == \E r \in Reserves(call.op) : Answer("getReservesData", [reserves |-> <<r>>])

scaledTotalSupply == \E v \in {0, 3} : Answer("scaledTotalSupply", [v |-> v])

scaledBalanceOf == \E v \in {0, 1, 2} : Answer("scaledBalanceOf", [v |-> v])

getUserAccountData ==
  \E d \in AccountDatas(call.op) : Answer("getUserAccountData", [data |-> d])

getAssetPrice == \E v \in {1, 5} : Answer("getAssetPrice", [v |-> v])

\* the sender accepts what it is handed and reports a hash and a fee
senderSendTransaction ==
  \E f \in 1..MaxFee : Answer("sendTransaction", [hash |-> Len(log) + 1, fee |-> f])

\* the sender fails to submit what it is handed
senderRejectsTransaction == Answer("sendTransaction", Rejection)

senderQuoteSendTransaction ==
  \E f \in 1..MaxFee : Answer("quoteSendTransaction", [fee |-> f])

\* the running method finishes: its writes to the memoized fields and its
\* outcome take effect
Complete(op) ==
  /\ pc = "running"
  /\ call.op = op
  /\ run.status \in {"throw", "return"}
  /\ addressMap' = run.am
  /\ poolContract' = run.pool
  /\ uiPoolDataProviderContract' = run.ui
  /\ outcome' = [err |-> run.err, result |-> run.result]
  /\ pc' = "done"
  /\ UNCHANGED <<accountKind, call, log, run, tasks, inFlight, allowance>>

supply == Complete("supply")
quoteSupply == Complete("quoteSupply")
withdraw == Complete("withdraw")
quoteWithdraw == Complete("quoteWithdraw")
borrow == Complete("borrow")
quoteBorrow == Complete("quoteBorrow")
repay == Complete("repay")
quoteRepay == Complete("quoteRepay")
getAccountData == Complete("getAccountData")
setUseReserveAsCollateral == Complete("setUseReserveAsCollateral")
setUserEMode == Complete("setUserEMode")

\* the caller takes the outcome
Deliver ==
  /\ pc = "done"
  /\ pc' = "idle"
  /\ call' = NoCall
  /\ log' = <<>>
  /\ run' = NoRun
  /\ outcome' = NoOutcome
  /\ UNCHANGED <<accountKind, addressMap, poolContract, uiPoolDataProviderContract,
                 tasks, inFlight, allowance>>

Next ==
  \/ Call
  \/ getNetwork
  \/ getTokenBalance
  \/ getReservesData
  \/ scaledTotalSupply
  \/ scaledBalanceOf
  \/ getUserAccountData
  \/ getAssetPrice
  \/ senderSendTransaction
  \/ senderRejectsTransaction
  \/ senderQuoteSendTransaction
  \/ supply
  \/ quoteSupply
  \/ withdraw
  \/ quoteWithdraw
  \/ borrow
  \/ quoteBorrow
  \/ repay
  \/ quoteRepay
  \/ getAccountData
  \/ setUseReserveAsCollateral
  \/ setUserEMode
  \/ Deliver

Spec == Init /\ [][Next]_vars

(***************************************************************************)
(* The memoizing getters as concurrent executions.  An execution runs      *)
(* without interruption from one await to the next; at an await the other  *)
(* executions may run.                                                     *)
(***************************************************************************)
\* a getter is called and runs up to its first await: it returns the cached
\* value, or it awaits _getAddressMap, which awaits provider.getNetwork()
\* unless the registry is cached
Getter_call(t, fn) ==
  /\ tasks[t].at = "idle"
  /\ tasks' =
       [tasks EXCEPT ![t] =
          IF fn = "_getPoolContract" /\ poolContract # Undefined
          THEN [fn |-> fn, at |-> "returned", am |-> NoAddressMap]
          ELSE IF fn = "_getUiPoolDataProviderContract"
                  /\ uiPoolDataProviderContract # Undefined
          THEN [fn |-> fn, at |-> "returned", am |-> NoAddressMap]
          ELSE IF addressMap # NoAddressMap
          THEN [fn |-> fn,
                at |-> IF fn = "_getAddressMap" THEN "returned" ELSE "gotAddressMap",
                am |-> addressMap]
          ELSE [fn |-> fn, at |-> "getNetwork", am |-> NoAddressMap]]
  /\ UNCHANGED <<accountKind, addressMap, poolContract, uiPoolDataProviderContract,
                 pc, call, log, run, outcome, inFlight, allowance>>

\* provider.getNetwork() answers an execution of _getAddressMap: the chain is
\* looked up, the entry is memoized and returned
_getAddressMap_resume(t, chainId) ==
  /\ tasks[t].at = "getNetwork"
  /\ IF chainId \notin DOMAIN AAVE_V3_ADDRESS_MAP
     THEN /\ tasks' = [tasks EXCEPT ![t].at = "threw"]
          /\ UNCHANGED addressMap
     ELSE /\ addressMap' = AAVE_V3_ADDRESS_MAP[chainId]
          /\ tasks' =
               [tasks EXCEPT ![t].at = IF tasks[t].fn = "_getAddressMap"
                                       THEN "returned" ELSE "gotAddressMap",
                             ![t].am = AAVE_V3_ADDRESS_MAP[chainId]]
  /\ UNCHANGED <<accountKind, poolContract, uiPoolDataProviderContract,
                 pc, call, log, run, outcome, inFlight, allowance>>

\* after `await this._getAddressMap()`: the Contract is created on the entry
\* handed over and memoized
Getter_resume(t) ==
  /\ tasks[t].at = "gotAddressMap"
  /\ IF tasks[t].fn = "_getPoolContract"
     THEN /\ poolContract' = tasks[t].am.pool
          /\ UNCHANGED uiPoolDataProviderContract
     ELSE /\ uiPoolDataProviderContract' = tasks[t].am.uiPoolDataProvider
          /\ UNCHANGED poolContract
  /\ tasks' = [tasks EXCEPT ![t].at = "returned"]
  /\ UNCHANGED <<accountKind, addressMap, pc, call, log, run, outcome,
                 inFlight, allowance>>

\* the caller of the getter takes what it returned or threw
Getter_settle(t) ==
  /\ tasks[t].at \in {"returned", "threw"}
  /\ tasks' = [tasks EXCEPT ![t] = IdleTask]
  /\ UNCHANGED <<accountKind, addressMap, poolContract, uiPoolDataProviderContract,
                 pc, call, log, run, outcome, inFlight, allowance>>

CallGetter == \E t \in TaskIds, fn \in Getters : Getter_call(t, fn)

ResumeGetAddressMap == \E t \in TaskIds, id \in ChainIds : _getAddressMap_resume(t, id)

ResumeGetter == \E t \in TaskIds : Getter_resume(t)

SettleGetter == \E t \in TaskIds : Getter_settle(t)

NextConcurrent ==
  \/ CallGetter
  \/ ResumeGetAddressMap
  \/ ResumeGetter
  \/ SettleGetter

SpecConcurrent == Init /\ [][NextConcurrent]_vars

(***************************************************************************)
(* Supplies and repays of a standard account as concurrent executions on   *)
(* an adapter that has memoized its handles.  An execution runs from one   *)
(* await to the next; at an await the other executions may run.  The       *)
(* sender submits the transactions in the order in which it is handed      *)
(* them, so what a transaction does to the pool's allowance on the token   *)
(* is applied when it is handed over: approve sets the allowance, the main *)
(* call draws its amount from it, or reverts when it is not covered.       *)
(***************************************************************************)
SuppliesAndRepays ==
  {[NoCall EXCEPT !.op = op,
                  !.options = [NoOptions EXCEPT !.token = USDT, !.amount = a]]
     : op \in {"supply", "repay"}, a \in {1, MaxAmount}}

\* the chain lets the operation pass; the sender accepts what it is handed
ChainAnswer(fn, n) ==
  CASE fn = "getTokenBalance" -> [balance |-> MaxAmount]
    [] fn = "getReservesData" -> [reserves |-> <<DefaultReserve>>]
    [] fn = "scaledTotalSupply" -> [v |-> 0]
    [] fn = "scaledBalanceOf" -> [v |-> MaxAmount]
    [] fn = "sendTransaction" -> [hash |-> n + 1, fee |-> 1]
    [] OTHER -> NoVal

\* the execution of an operation in flight, up to the await it stands at
Operation(op) == Exec(op.call, op.log)

HandsTransaction(op) ==
  /\ op.call # NoCall
  /\ Operation(op).status = "await"
  /\ Operation(op).need.fn = "sendTransaction"

HandedTransaction(op) == Operation(op).need.arg.txs[1]

\* the allowance once the transaction that op hands over is executed
AllowanceAfter(a, op) ==
  IF ~HandsTransaction(op) THEN a
  ELSE IF HandedTransaction(op).fn = "approve" THEN HandedTransaction(op).args[2]
  ELSE IF a >= HandedTransaction(op).args[2] THEN a - HandedTransaction(op).args[2]
  ELSE a

\* the operation with the request it awaits answered
Answered(op) ==
  [op EXCEPT !.log = Append(@, [fn |-> Operation(op).need.fn,
                                arg |-> Operation(op).need.arg,
                                val |-> ChainAnswer(Operation(op).need.fn, Len(op.log))])]

\* a caller invokes supply or repay; it runs up to its first await
Operation_call(t, c) ==
  /\ inFlight[t].call = NoCall
  /\ inFlight' = [inFlight EXCEPT ![t] = [call |-> c, log |-> <<>>]]
  /\ allowance' = AllowanceAfter(allowance, [call |-> c, log |-> <<>>])
  /\ UNCHANGED <<accountKind, addressMap, poolContract, uiPoolDataProviderContract,
                 pc, call, log, run, outcome, tasks>>

\* the awaited promise resolves; the operation runs on to its next await or
\* to its end
Operation_resume(t) ==
  /\ inFlight[t].call # NoCall
  /\ Operation(inFlight[t]).status = "await"
  /\ inFlight' = [inFlight EXCEPT ![t] = Answered(inFlight[t])]
  /\ allowance' = AllowanceAfter(allowance, Answered(inFlight[t]))
  /\ UNCHANGED <<accountKind, addressMap, poolContract, uiPoolDataProviderContract,
                 pc, call, log, run, outcome, tasks>>

\* the operation has returned or thrown; its caller takes the outcome
Operation_settle(t) ==
  /\ inFlight[t].call # NoCall
  /\ Operation(inFlight[t]).status \in {"return", "throw"}
  /\ addressMap' = Operation(inFlight[t]).am
  /\ poolContract' = Operation(inFlight[t]).pool
  /\ uiPoolDataProviderContract' = Operation(inFlight[t]).ui
  /\ inFlight' = [inFlight EXCEPT ![t] = NoOperation]
  /\ UNCHANGED <<accountKind, pc, call, log, run, outcome, tasks, allowance>>

CallOperation == \E t \in TaskIds, c \in SuppliesAndRepays : Operation_call(t, c)

ResumeOperation == \E t \in TaskIds : Operation_resume(t)

SettleOperation == \E t \in TaskIds : Operation_settle(t)

\* a standard account on an adapter that has served an operation before
InitAllowance ==
  /\ accountKind = "evm"
  /\ addressMap = AAVE_V3_ADDRESS_MAP[1]
  /\ poolContract = AAVE_V3_ADDRESS_MAP[1].pool
  /\ uiPoolDataProviderContract = AAVE_V3_ADDRESS_MAP[1].uiPoolDataProvider
  /\ pc = "idle"
  /\ call = NoCall
  /\ log = <<>>
  /\ run = NoRun
  /\ outcome = NoOutcome
  /\ tasks = [t \in TaskIds |-> IdleTask]
  /\ inFlight = [t \in TaskIds |-> NoOperation]
  /\ allowance = 0

NextAllowance ==
  \/ CallOperation
  \/ ResumeOperation
  \/ SettleOperation

SpecAllowance == InitAllowance /\ [][NextAllowance]_vars


(***************************************************************************)
(* What an operation has done: the requests it has made, read off `log`.   *)
(***************************************************************************)
Done(op) == pc = "done" /\ call.op = op

\* the requests handed to the transaction sender, in order
Sends == SelectSeq(log, LAMBDA e : e.fn = "sendTransaction")

\* the calls those requests carry, in order
RECURSIVE Flatten(_)
Flatten(ss) == IF ss = <<>> THEN <<>> ELSE Head(ss).arg.txs \o Flatten(Tail(ss))

SentCalls == Flatten(Sends)

HasAnswer(fn) == \E i \in DOMAIN log : log[i].fn = fn

\* the first answer to a request of kind fn
AnswerTo(fn) ==
  log[CHOOSE i \in DOMAIN log :
        log[i].fn = fn /\ \A j \in DOMAIN log : log[j].fn = fn => i <= j].val

\* the pool of the registry entry of the chain the adapter is bound to
ResolvedPool ==
  IF HasAnswer("getNetwork")
  THEN AAVE_V3_ADDRESS_MAP[AnswerTo("getNetwork").chainId].pool
  ELSE addressMap.pool

\* the reserve of the call's token in the first reserve list read
ReserveFound ==
  /\ HasAnswer("getReservesData")
  /\ \E i \in DOMAIN AnswerTo("getReservesData").reserves :
       AnswerTo("getReservesData").reserves[i].underlyingAsset = call.options.token

TheReserve ==
  LET reserves == AnswerTo("getReservesData").reserves IN
  reserves[CHOOSE i \in DOMAIN reserves : reserves[i].underlyingAsset = call.options.token]

InputErrors == {TokenMustBeValid, OnBehalfMustBeValid, ToMustBeValid, AmountMustBePositive}

ValidationErrors ==
  {AAVE_V3_ERROR.INSUFFICIENT_FUND, AAVE_V3_ERROR.CANNOT_FIND_TOKEN_RESERVE,
   AAVE_V3_ERROR.RESERVE_PAUSED, AAVE_V3_ERROR.RESERVE_FROZEN,
   AAVE_V3_ERROR.RESERVE_INACTIVE, AAVE_V3_ERROR.SUPPLY_CAP_EXCEEDED,
   AAVE_V3_ERROR.INSUFFICIENT_BALANCE_TO_WITHDRAW, AAVE_V3_ERROR.HEALTH_FACTOR_TOO_LOW,
   AAVE_V3_ERROR.INVALID_LTV, AAVE_V3_ERROR.INSUFFICIENT_COLLATERAL,
   AAVE_V3_ERROR.BORROW_DISABLED, AAVE_V3_ERROR.BORROW_CAP_EXCEEDED,
   AAVE_V3_ERROR.DEBT_NOT_FOUND, AAVE_V3_ERROR.TOKEN_CANNOT_BE_COLLATERAL}

MutatingMethods == {"supply", "withdraw", "borrow", "repay", "setUseReserveAsCollateral"}


(***************************************************************************)
(* supply                                                                  *)
(***************************************************************************)
SupplyReserveUsable ==
  /\ HasAnswer("getTokenBalance")
  /\ AnswerTo("getTokenBalance").balance >= call.options.amount
  /\ ReserveFound
  /\ ~TheReserve.isPaused /\ ~TheReserve.isFrozen /\ TheReserve.isActive

SupplyValidationPassed ==
  SupplyReserveUsable /\ outcome.err # AAVE_V3_ERROR.SUPPLY_CAP_EXCEEDED

C2_RejectedOperationSendsNothing ==
  (/\ pc \in {"running", "done"} /\ call.op \in MutatingMethods
   /\ run.status = "throw" /\ run.err \in InputErrors \cup ValidationErrors)
  => /\ Sends = <<>>
     /\ pc = "done" => outcome.err = run.err

C2_Witness ==
  /\ Done("withdraw")
  /\ outcome.err = AAVE_V3_ERROR.HEALTH_FACTOR_TOO_LOW
  /\ HasAnswer("getUserAccountData")

SupplyCapExceeded ==
  rayMul(AnswerTo("scaledTotalSupply").v + TheReserve.accruedToTreasury,
         TheReserve.liquidityIndex + call.options.amount)
    > TheReserve.supplyCap * (10 ^ TheReserve.decimals)

\* C3: with a sufficient balance and a reserve that is found, not paused, not
\* frozen and active, supply raises the supply-cap error exactly when
\* rayMul(scaledTotalSupply + accruedToTreasury, liquidityIndex + amount)
\* exceeds supplyCap * 10^decimals, and then the sender has received nothing.
C3_SupplyCapRule ==
  (Done("supply") /\ SupplyReserveUsable)
  => /\ HasAnswer("scaledTotalSupply")
     /\ outcome.err = AAVE_V3_ERROR.SUPPLY_CAP_EXCEEDED <=> SupplyCapExceeded
     /\ SupplyCapExceeded => Sends = <<>>

C3_Witness ==
  /\ Done("supply") /\ SupplyReserveUsable
  /\ HasAnswer("scaledTotalSupply")
  /\ TheReserve.supplyCap > 0
  /\ SupplyCapExceeded
  /\ outcome.err = AAVE_V3_ERROR.SUPPLY_CAP_EXCEEDED


(***************************************************************************)
(* input checks                                                            *)
(***************************************************************************)
GivenButInvalid(a) == a # Undefined /\ (~isAddress(a) \/ a = ZeroAddress)

TakesAmount(op) == op \notin {"getAccountData", "setUseReserveAsCollateral", "setUserEMode"}

\* a structurally invalid input of the running call
InvalidInput ==
  \/ call.op \notin {"getAccountData", "setUserEMode"} /\ ~isAddress(call.options.token)
  \/ GivenButInvalid(call.options.onBehalfOf)
  \/ GivenButInvalid(call.options.to)
  \/ GivenButInvalid(call.address)
  \/ TakesAmount(call.op) /\ call.options.amount <= 0

AccountTypeChecked == {"supply", "repay", "setUseReserveAsCollateral"}

\* C4 as stated: every public operation rejects a structurally invalid input
\* with an input error before any chain access, send or quote.
C4_AsStated ==
  (pc \in {"running", "done"} /\ InvalidInput)
  => log = <<>> /\ run.status = "throw" /\ run.err \in InputErrors

\* C4: every public operation rejects a structurally invalid input before any
\* chain access, send or quote; the error is an input error, except that
\* supply, repay and setUseReserveAsCollateral on a read-only account raise
\* the account-type error, which they check first.
C4_InvalidInputRejectedBeforeChainAccess ==
  (pc \in {"running", "done"} /\ InvalidInput)
  => /\ log = <<>>
     /\ run.status = "throw"
     /\ IF accountKind = "readonly" /\ call.op \in AccountTypeChecked
        THEN run.err = RequiresNonReadOnlyAccount
        ELSE run.err \in InputErrors

C4_Witness ==
  /\ Done("withdraw")
  /\ call.options.to = ZeroAddress
  /\ isAddress(call.options.token) /\ call.options.amount > 0
  /\ outcome.err = ToMustBeValid
  /\ log = <<>>

(***************************************************************************)
(* withdraw                                                                *)
(***************************************************************************)
ReserveUsable ==
  /\ ReserveFound
  /\ ~TheReserve.isPaused /\ ~TheReserve.isFrozen /\ TheReserve.isActive

ProjectedBalance == rayMul(AnswerTo("scaledBalanceOf").v, TheReserve.liquidityIndex)

\* C5: in withdraw, with a reserve found, not paused, not frozen and active, a
\* literal amount above rayMul(scaledBalanceOf(caller), liquidityIndex) raises
\* the insufficient-balance error, and the account's data has not been read.
C5_WithdrawBalanceBeforeHealth ==
  (Done("withdraw") /\ ReserveUsable /\ IsInteger(call.options.amount))
  => /\ HasAnswer("scaledBalanceOf")
     /\ call.options.amount > ProjectedBalance
          => /\ outcome.err = AAVE_V3_ERROR.INSUFFICIENT_BALANCE_TO_WITHDRAW
             /\ ~HasAnswer("getUserAccountData")
             /\ Sends = <<>>

C5_Witness ==
  /\ Done("withdraw") /\ ReserveUsable
  /\ HasAnswer("scaledBalanceOf")
  /\ ProjectedBalance > 0
  /\ IsInteger(call.options.amount) /\ call.options.amount > ProjectedBalance
  /\ outcome.err = AAVE_V3_ERROR.INSUFFICIENT_BALANCE_TO_WITHDRAW

(***************************************************************************)
(* borrow                                                                  *)
(***************************************************************************)
\* the first request of kind fn
RequestOf(fn) ==
  log[CHOOSE i \in DOMAIN log :
        log[i].fn = fn /\ \A j \in DOMAIN log : log[j].fn = fn => i <= j].arg

\* the health factor as getAccountData reports it
ReportedHealthFactor(raw) == IF isBigIntInfinity(raw) THEN Infinity ELSE Number(raw)

\* the error the listed order gives for the account data, the reserve and the
\* price that the borrow has been answered
BorrowRuleViolated ==
  LET data == AnswerTo("getUserAccountData").data
      amount == call.options.amount
  IN
  IF data[5] = 0 \/ data[1] = 0 THEN AAVE_V3_ERROR.INSUFFICIENT_COLLATERAL
  ELSE IF ReportedHealthFactor(data[6]) < HEALTH_FACTOR_LIQUIDATION_THRESHOLD_IN_BASE_UNIT
  THEN AAVE_V3_ERROR.HEALTH_FACTOR_TOO_LOW
  ELSE IF ~ReserveFound THEN AAVE_V3_ERROR.CANNOT_FIND_TOKEN_RESERVE
  ELSE IF TheReserve.isPaused THEN AAVE_V3_ERROR.RESERVE_PAUSED
  ELSE IF TheReserve.isFrozen THEN AAVE_V3_ERROR.RESERVE_FROZEN
  ELSE IF ~TheReserve.isActive THEN AAVE_V3_ERROR.RESERVE_INACTIVE
  ELSE IF ~TheReserve.borrowingEnabled THEN AAVE_V3_ERROR.BORROW_DISABLED
  ELSE IF rayMul(TheReserve.totalScaledVariableDebt, TheReserve.variableBorrowIndex) + amount
            > TheReserve.borrowCap * (10 ^ TheReserve.decimals)
  THEN AAVE_V3_ERROR.BORROW_CAP_EXCEEDED
  ELSE IF percentDiv(Number(data[2])
                       + (amount * AnswerTo("getAssetPrice").v) \div (10 ^ TheReserve.decimals),
                     Number(data[5]))
            > Number(data[1])
  THEN AAVE_V3_ERROR.INSUFFICIENT_COLLATERAL
  ELSE NoError

ProjectedDebt == rayMul(AnswerTo("scaledBalanceOf").v, TheReserve.variableBorrowIndex)

\* C7: in repay, with a reserve found, not paused and active, the debt-not-found
\* error is raised exactly when rayMul(scaledBalanceOf(account),
\* variableBorrowIndex) of the reserve's debt token is 0, the account being
\* onBehalfOf, or else the caller.
C7_DebtNotFoundRule ==
  (Done("repay") /\ ReserveFound /\ ~TheReserve.isPaused /\ TheReserve.isActive)
  => /\ HasAnswer("scaledBalanceOf")
     /\ RequestOf("scaledBalanceOf") =
          [contract |-> TheReserve.variableDebtTokenAddress,
           user |-> OrElse(call.options.onBehalfOf, ME)]
     /\ outcome.err = AAVE_V3_ERROR.DEBT_NOT_FOUND <=> ProjectedDebt = 0

C7_Witness ==
  /\ Done("repay") /\ ReserveFound /\ ~TheReserve.isPaused /\ TheReserve.isActive
  /\ HasAnswer("scaledBalanceOf")
  /\ AnswerTo("scaledBalanceOf").v > 0
  /\ ProjectedDebt = 0
  /\ call.options.onBehalfOf = BOB
  /\ outcome.err = AAVE_V3_ERROR.DEBT_NOT_FOUND


(***************************************************************************)
(* setUseReserveAsCollateral                                               *)
(***************************************************************************)
CollateralCall(useAsCollateral) ==
  [to |-> ResolvedPool, fn |-> "setUserUseReserveAsCollateral",
   args |-> <<call.options.token, useAsCollateral>>,
   value |-> 0, gasLimit |-> DEFAULT_GAS_LIMIT]

\* C8 as stated: enabling a found reserve whose baseLTVasCollateral, the
\* bigint the data provider returns, is 0 raises the token-cannot-be-collateral
\* error and sends nothing; disabling never raises it and, the reserve found,
\* sends exactly the one call setUserUseReserveAsCollateral(token, false).
C8_AsStated ==
  /\ (/\ Done("setUseReserveAsCollateral") /\ call.useAsCollateral
      /\ ReserveFound /\ TheReserve.baseLTVasCollateral = Big(0))
     => outcome.err = AAVE_V3_ERROR.TOKEN_CANNOT_BE_COLLATERAL /\ Sends = <<>>
  /\ (Done("setUseReserveAsCollateral") /\ ~call.useAsCollateral)
     => /\ outcome.err # AAVE_V3_ERROR.TOKEN_CANNOT_BE_COLLATERAL
        /\ ReserveFound => SentCalls = <<CollateralCall(FALSE)>>

\* the part of C8 about disabling, on its own
DisablingIsNeverRefused ==
  (Done("setUseReserveAsCollateral") /\ ~call.useAsCollateral)
  => /\ outcome.err # AAVE_V3_ERROR.TOKEN_CANNOT_BE_COLLATERAL
     /\ ReserveFound => SentCalls = <<CollateralCall(FALSE)>>

\* enabling with a bigint 0 is sent to the pool
EnablingZeroLtvIsSent ==
  /\ Done("setUseReserveAsCollateral") /\ call.useAsCollateral
  /\ ReserveFound /\ TheReserve.baseLTVasCollateral = Big(0)
  /\ outcome.err = NoError
  /\ SentCalls = <<CollateralCall(TRUE)>>

(***************************************************************************)
(* repay of a frozen reserve                                               *)
(***************************************************************************)
RepayCallSent == \E i \in DOMAIN SentCalls : SentCalls[i].fn = "repay"

FrozenWithDebt ==
  /\ ReserveFound
  /\ TheReserve.isFrozen /\ ~TheReserve.isPaused /\ TheReserve.isActive
  /\ HasAnswer("scaledBalanceOf") /\ ProjectedDebt # 0

\* C9 as stated: repay never raises the frozen-reserve error, and a repay of a
\* reserve that is frozen, not paused and active, the account's projected debt
\* not 0, passes validation and has its repay call sent.
C9_AsStated ==
  /\ Done("repay") => outcome.err # AAVE_V3_ERROR.RESERVE_FROZEN
  /\ (Done("repay") /\ FrozenWithDebt)
     => outcome.err \notin ValidationErrors /\ RepayCallSent

\* the same for a literal amount
FrozenReserveRepaidLiteral ==
  /\ Done("repay") => outcome.err # AAVE_V3_ERROR.RESERVE_FROZEN
  /\ (Done("repay") /\ FrozenWithDebt /\ IsInteger(call.options.amount))
     => outcome.err = NoError /\ RepayCallSent

\* a full repay of a frozen reserve ends in the encoder's error, nothing sent
FrozenFullRepayFails ==
  /\ Done("repay") /\ FrozenWithDebt
  /\ call.options.amount = Infinity
  /\ outcome.err = InvalidArgument
  /\ Sends = <<>>

(***************************************************************************)
(* quotes                                                                  *)
(***************************************************************************)
QuoteMethods == {"quoteSupply", "quoteWithdraw", "quoteBorrow", "quoteRepay"}

Counterpart(op) ==
  CASE op = "quoteSupply" -> "supply"
    [] op = "quoteWithdraw" -> "withdraw"
    [] op = "quoteBorrow" -> "borrow"
    [] op = "quoteRepay" -> "repay"
    [] OTHER -> op

\* a state of a supported chain: the answer it gives to each kind of request
ChainStates ==
  {[getNetwork |-> [chainId |-> id], getTokenBalance |-> [balance |-> b],
    getReservesData |-> [reserves |-> <<r>>], scaledTotalSupply |-> [v |-> 0],
    scaledBalanceOf |-> [v |-> sb], getUserAccountData |-> [data |-> d],
    getAssetPrice |-> [v |-> 1], sendTransaction |-> [hash |-> 1, fee |-> 1],
    quoteSendTransaction |-> [fee |-> 1]]
     : id \in SupportedChains, b \in {0, MaxAmount},
       r \in {DefaultReserve, [DefaultReserve EXCEPT !.isPaused = TRUE]},
       sb \in {0, 2},
       d \in {<<20, 0, 0, 0, 2 ^ 13, 100>>, <<0, 0, 0, 0, 0, 96>>}}

\* the chain state agrees with what the finished operation was answered
AgreesWithLog(chain) ==
  \A i \in DOMAIN log :
    log[i].fn \notin {"sendTransaction", "quoteSendTransaction"}
      => chain[log[i].fn] = log[i].val

\* the method of call c run to its end on a chain state
RECURSIVE RunOn(_, _, _)
RunOn(c, chain, answers) ==
  LET r == Exec(c, answers) IN
  IF r.status # "await" THEN r
  ELSE RunOn(c, chain,
             Append(answers, [fn |-> r.need.fn, arg |-> r.need.arg,
                              val |-> chain[r.need.fn]]))

CounterpartOn(chain) == RunOn([call EXCEPT !.op = Counterpart(call.op)], chain, <<>>)

\* the counterpart up to its first request
CounterpartAtStart == Exec([call EXCEPT !.op = Counterpart(call.op)], <<>>)

RECURSIVE SumOfFees(_)
SumOfFees(entries) ==
  IF entries = <<>> THEN 0 ELSE Head(entries).val.fee + SumOfFees(Tail(entries))

Quotes == SelectSeq(log, LAMBDA e : e.fn = "quoteSendTransaction")

C11_AsStated ==
  (pc = "done" /\ call.op \in MutatingMethods /\ accountKind = "readonly")
  => outcome.err = RequiresNonReadOnlyAccount /\ Sends = <<>>

\* the methods that test the account type do so before anything else
AccountTypeCheckedFirst ==
  (pc = "done" /\ call.op \in AccountTypeChecked /\ accountKind = "readonly")
  => outcome.err = RequiresNonReadOnlyAccount /\ log = <<>>

\* a read-only account is never handed a transaction
ReadOnlyNeverSends == accountKind = "readonly" => Sends = <<>>

\* withdraw and borrow on a read-only account run their validation and end in
\* the runtime's error at the send step
ReadOnlyWithdrawIsValidated ==
  /\ Done("withdraw") /\ accountKind = "readonly"
  /\ HasAnswer("getUserAccountData")
  /\ outcome.err = TypeError

ReadOnlyBorrowIsRejectedByValidation ==
  /\ Done("borrow") /\ accountKind = "readonly"
  /\ outcome.err = AAVE_V3_ERROR.RESERVE_PAUSED

(***************************************************************************)
(* the maximum sentinel                                                    *)
(***************************************************************************)
WithdrawCall(amount) ==
  [to |-> ResolvedPool, fn |-> "withdraw",
   args |-> <<call.options.token, amount, OrElse(call.options.to, ME)>>,
   value |-> 0, gasLimit |-> DEFAULT_GAS_LIMIT]

\* C12 as stated: withdraw with the maximum sentinel passes the input checks,
\* is not rejected at the withdrawable-balance check whatever the projected
\* balance (the remaining checks are reached), and when the remaining checks
\* pass the sender receives the withdraw call with the amount 2^UintBits - 1.
C12_AsStated ==
  (Done("withdraw") /\ call.options.amount = Infinity /\ ~InvalidInput)
  => /\ outcome.err \notin InputErrors
     /\ outcome.err # AAVE_V3_ERROR.INSUFFICIENT_BALANCE_TO_WITHDRAW
     /\ (ReserveUsable /\ HasAnswer("scaledBalanceOf"))
          => HasAnswer("getUserAccountData")
     /\ (IsSigner /\ HasAnswer("getUserAccountData")
           /\ outcome.err \notin ValidationErrors)
          => SentCalls = <<WithdrawCall(MAX_UINT256)>>

\* the part of C12 about the input checks and the balance error
MaxWithdrawPassesInputChecks ==
  (Done("withdraw") /\ call.options.amount = Infinity /\ ~InvalidInput)
  => /\ outcome.err \notin InputErrors
     /\ outcome.err # AAVE_V3_ERROR.INSUFFICIENT_BALANCE_TO_WITHDRAW

\* withdraw with the sentinel ends at the balance check, in BigInt(Infinity)
MaxWithdrawFailsAtBalanceCheck ==
  /\ Done("withdraw") /\ call.options.amount = Infinity
  /\ ReserveUsable /\ HasAnswer("scaledBalanceOf")
  /\ outcome.err = RangeError
  /\ ~HasAnswer("getUserAccountData")
  /\ Sends = <<>>

\* the withdraw call built for the sentinel carries MaxInt256
MaxWithdrawQuotedWithMaxInt256 ==
  /\ Done("quoteWithdraw") /\ call.options.amount = Infinity
  /\ outcome.err = NoError
  /\ Len(Quotes) = 1
  /\ Quotes[1].arg.txs = <<WithdrawCall(MaxInt256)>>
  /\ MaxInt256 # MAX_UINT256

(***************************************************************************)
(* the repay call of a full repay                                          *)
(***************************************************************************)
\* _getRepayTransaction on the call's options, run to its end on a chain state
RECURSIVE BuildRepayOn(_, _)
BuildRepayOn(chain, answers) ==
  LET r == _getRepayTransaction(Start(answers), call.options) IN
  IF r.status # "await" THEN r
  ELSE BuildRepayOn(chain,
                    Append(answers, [fn |-> r.need.fn, arg |-> r.need.arg,
                                     val |-> chain[r.need.fn]]))

\* the projected variable debt the chain state reports
DebtOn(chain) ==
  rayMul(chain.scaledBalanceOf.v, chain.getReservesData.reserves[1].variableBorrowIndex)

IsRepay == pc = "done" /\ call.op \in {"repay", "quoteRepay"} /\ ~InvalidInput

\* C13 as stated: the repay call built for the maximum sentinel carries
\* 2^UintBits - 1 when onBehalfOf is omitted and the projected debt of
\* onBehalfOf + 100 when it is given; any other amount is carried unchanged.
C13_AsStated ==
  IsRepay
  => \A chain \in ChainStates :
       BuildRepayOn(chain, <<>>).status = "run"
       => BuildRepayOn(chain, <<>>).val.args[2]
            = IF call.options.amount # Infinity THEN call.options.amount
              ELSE IF call.options.onBehalfOf = Undefined THEN MAX_UINT256
              ELSE DebtOn(chain) + 100

\* the same with the value the builder uses for a full repay of one's own debt
RepayCallAmountAsBuilt ==
  IsRepay
  => \A chain \in ChainStates :
       BuildRepayOn(chain, <<>>).status = "run"
       => BuildRepayOn(chain, <<>>).val.args[2]
            = IF call.options.amount # Infinity THEN call.options.amount
              ELSE IF call.options.onBehalfOf = Undefined THEN MaxInt256
              ELSE DebtOn(chain) + 100

\* a literal amount reaches the sender unchanged
LiteralRepaySentUnchanged ==
  (Done("repay") /\ outcome.err = NoError)
  => /\ IsInteger(call.options.amount)
     /\ SentCalls[Len(SentCalls)].fn = "repay"
     /\ SentCalls[Len(SentCalls)].args[2] = call.options.amount

\* a repay or a quote of a repay with the sentinel never gets as far as the
\* repay call: the approval is built first, from the sentinel itself
FullRepayNeverBuilt ==
  (pc = "done" /\ call.op \in {"repay", "quoteRepay"} /\ call.options.amount = Infinity)
  => /\ outcome.err # NoError
     /\ Sends = <<>> /\ Quotes = <<>>

\* a full repay of one's own debt that passed validation
FullRepayFailsAfterValidation ==
  /\ Done("repay") /\ call.options.amount = Infinity
  /\ call.options.onBehalfOf = Undefined
  /\ HasAnswer("scaledBalanceOf") /\ ProjectedDebt # 0
  /\ outcome.err = InvalidArgument

(***************************************************************************)
(* the approval before supply and repay                                    *)
(***************************************************************************)
\* what has been sent starts with an approval of the pool that covers the
\* main call
ApprovalCovers ==
  /\ SentCalls[1].fn = "approve"
  /\ SentCalls[1].to = call.options.token
  /\ SentCalls[1].args[1] = ResolvedPool
  /\ Len(SentCalls) > 1
       => /\ Len(SentCalls) = 2
          /\ SentCalls[2].fn = call.op
          /\ SentCalls[2].to = ResolvedPool
          /\ SentCalls[1].args[2] >= SentCalls[2].args[2]

\* a repay with the sentinel whose validation passed
FullRepayValidated ==
  /\ Done("repay") /\ IsSigner /\ ~InvalidInput
  /\ call.options.amount = Infinity
  /\ ReserveFound /\ ~TheReserve.isPaused /\ TheReserve.isActive
  /\ HasAnswer("scaledBalanceOf") /\ ProjectedDebt # 0

SentApprovalCoversMainCall ==
  (call.op \in {"supply", "repay"} /\ Sends # <<>>)
  => ApprovalCovers /\ IsInteger(call.options.amount)

SentApprovalOnBehalf ==
  /\ Done("repay") /\ outcome.err = NoError
  /\ call.options.onBehalfOf # Undefined
  /\ Len(SentCalls) = 2
  /\ SentCalls[1].args[2] = SentCalls[2].args[2]

\* a validated repay with the sentinel on behalf of another account: the
\* approval cannot be built
FullRepayOnBehalfSendsNothing ==
  /\ FullRepayValidated
  /\ call.options.onBehalfOf # Undefined
  /\ outcome.err = InvalidArgument
  /\ Sends = <<>>

(***************************************************************************)
(* getAccountData                                                          *)
(***************************************************************************)
RawAccountData == AnswerTo("getUserAccountData").data

\* the first five fields are the raw fields, in their places, as numbers
FirstFiveConverted ==
  /\ outcome.result.totalCollateralBase = Number(RawAccountData[1])
  /\ outcome.result.totalDebtBase = Number(RawAccountData[2])
  /\ outcome.result.availableBorrowsBase = Number(RawAccountData[3])
  /\ outcome.result.currentLiquidationThreshold = Number(RawAccountData[4])
  /\ outcome.result.ltv = Number(RawAccountData[5])

\* C15 as stated: getAccountData returns the six raw fields in their places,
\* the health factor being the infinite sentinel exactly when the raw sixth
\* field is 2^UintBits - 1; six raw zeros give six zeros.
C15_AsStated ==
  (Done("getAccountData") /\ outcome.err = NoError)
  => /\ FirstFiveConverted
     /\ outcome.result.healthFactor = Infinity <=> RawAccountData[6] = MAX_UINT256
     /\ RawAccountData[6] # MAX_UINT256
          => outcome.result.healthFactor = Number(RawAccountData[6])

\* the same with the value the program compares the sixth field to
AccountDataAsConverted ==
  (Done("getAccountData") /\ outcome.err = NoError)
  => /\ FirstFiveConverted
     /\ outcome.result.healthFactor = Infinity <=> RawAccountData[6] = MaxInt256
     /\ RawAccountData[6] # MaxInt256
          => outcome.result.healthFactor = Number(RawAccountData[6])

\* six raw zeros
AllZeroAccountData ==
  /\ Done("getAccountData") /\ outcome.err = NoError
  /\ RawAccountData = <<0, 0, 0, 0, 0, 0>>
  /\ outcome.result = [totalCollateralBase |-> 0, totalDebtBase |-> 0,
                        availableBorrowsBase |-> 0, currentLiquidationThreshold |-> 0,
                        ltv |-> 0, healthFactor |-> 0]

\* the health factor the pool reports for an account without debt comes back
\* as a finite number
MaxUintHealthFactorIsFinite ==
  /\ Done("getAccountData") /\ outcome.err = NoError
  /\ RawAccountData[6] = MAX_UINT256
  /\ outcome.result.healthFactor = Number(MAX_UINT256)
  /\ outcome.result.healthFactor # Infinity

(***************************************************************************)
(* a cap of 0                                                              *)
(***************************************************************************)
\* C16 as stated: a reserve with supplyCap 0 has no supply cap and one with
\* borrowCap 0 has no borrow cap: supply, resp. borrow, of such a reserve
\* never ends in the cap-exceeded error.
C16_AsStated ==
  /\ (Done("supply") /\ ReserveFound /\ TheReserve.supplyCap = 0)
       => outcome.err # AAVE_V3_ERROR.SUPPLY_CAP_EXCEEDED
  /\ (Done("borrow") /\ ReserveFound /\ TheReserve.borrowCap = 0)
       => outcome.err # AAVE_V3_ERROR.BORROW_CAP_EXCEEDED

\* a cap of 0 is compared like any other cap: every supply that gets as far as
\* the cap with a positive total is refused
ZeroSupplyCapRefusesPositiveTotal ==
  (/\ Done("supply") /\ ReserveFound /\ TheReserve.supplyCap = 0
   /\ HasAnswer("scaledTotalSupply"))
  => (outcome.err = AAVE_V3_ERROR.SUPPLY_CAP_EXCEEDED
        <=> rayMul(AnswerTo("scaledTotalSupply").v + TheReserve.accruedToTreasury,
                   TheReserve.liquidityIndex + call.options.amount) > 0)

ZeroSupplyCapRefused ==
  /\ Done("supply") /\ ReserveFound /\ TheReserve.supplyCap = 0
  /\ outcome.err = AAVE_V3_ERROR.SUPPLY_CAP_EXCEEDED

\* every borrow that gets as far as a borrow cap of 0 is refused
ZeroBorrowCapRefusesAll ==
  (/\ Done("borrow") /\ ReserveFound /\ TheReserve.borrowCap = 0
   /\ ~TheReserve.isPaused /\ ~TheReserve.isFrozen /\ TheReserve.isActive
   /\ TheReserve.borrowingEnabled /\ IsInteger(call.options.amount))
  => outcome.err = AAVE_V3_ERROR.BORROW_CAP_EXCEEDED

ZeroBorrowCapRefused ==
  /\ Done("borrow") /\ ReserveFound /\ TheReserve.borrowCap = 0
  /\ outcome.err = AAVE_V3_ERROR.BORROW_CAP_EXCEEDED

(***************************************************************************)
(* one adapter, one chain                                                  *)
(***************************************************************************)
\* the cached handles point at the addresses of the cached registry entry
HandlesOfRegistry ==
  /\ poolContract # Undefined
       => addressMap # NoAddressMap /\ poolContract = addressMap.pool
  /\ uiPoolDataProviderContract # Undefined
       => /\ addressMap # NoAddressMap
          /\ uiPoolDataProviderContract = addressMap.uiPoolDataProvider

\* C17 as stated: once the registry is resolved it never changes, and the
\* cached handles always point at addresses of that registry -- also for
\* operations started together before the first resolution completed, and
\* whatever chain id the chain reader reports later.
C17_AsStated ==
  [][/\ addressMap # NoAddressMap => addressMap' = addressMap
     /\ HandlesOfRegistry']_vars

\* the registry is resolved again after it was resolved
RegistryResolvedTwice ==
  /\ addressMap = AAVE_V3_ADDRESS_MAP[10]
  /\ \E t \in TaskIds : tasks[t].am = AAVE_V3_ADDRESS_MAP[1]

\* the pool handle of one chain beside the registry of another
HandleOfAnotherChain ==
  /\ addressMap = AAVE_V3_ADDRESS_MAP[10]
  /\ poolContract = AAVE_V3_ADDRESS_MAP[1].pool

(***************************************************************************)
(* an unsupported chain                                                    *)
(***************************************************************************)
UnsupportedChainReported ==
  HasAnswer("getNetwork") /\ AnswerTo("getNetwork").chainId \notin SupportedChains

\* C18: an operation that asks for the chain id and is told one that is not
\* in the table of supported chains ends in the unsupported-chain error, has
\* handed nothing to the sender, and leaves the registry and both handles
\* unresolved.
C18_UnsupportedChainRejected ==
  (pc = "done" /\ UnsupportedChainReported)
  => /\ outcome.err = ChainNotSupported
     /\ outcome.result = NoResult
     /\ Sends = <<>> /\ Quotes = <<>>
     /\ addressMap = NoAddressMap
     /\ poolContract = Undefined
     /\ uiPoolDataProviderContract = Undefined

C18_Witness ==
  /\ Done("withdraw")
  /\ UnsupportedChainReported
  /\ outcome.err = ChainNotSupported
  /\ addressMap = NoAddressMap

SucceededOnStandardAccount ==
  /\ pc = "done" /\ call.op \in {"supply", "repay"}
  /\ accountKind = "evm" /\ outcome.err = NoError

\* C20 as stated: on a standard account the result of a successful supply or
\* repay holds approveHash, the hash the sender returned for the approval,
\* hash, the one it returned for the main call, and fee, the sum of the fees.
C20_AsStated ==
  SucceededOnStandardAccount
  => /\ Len(Sends) = 2
     /\ outcome.result = [approveHash |-> Sends[1].val.hash,
                           hash |-> Sends[2].val.hash,
                           fee |-> Sends[1].val.fee + Sends[2].val.fee]

\* the result as the program returns it: the hash of the main call and the
\* sum of the fees
StandardResultAsReturned ==
  SucceededOnStandardAccount
  => /\ Len(Sends) = 2
     /\ ~Sends[1].arg.batch /\ ~Sends[2].arg.batch
     /\ outcome.result = [hash |-> Sends[2].val.hash,
                           fee |-> Sends[1].val.fee + Sends[2].val.fee]

ApprovalHashDropped ==
  /\ SucceededOnStandardAccount /\ call.op = "supply"
  /\ Sends[1].val.hash # Sends[2].val.hash
  /\ DOMAIN outcome.result = {"hash", "fee"}
  /\ outcome.result.hash = Sends[2].val.hash

(***************************************************************************)
(* the zero address as token                                               *)
(***************************************************************************)
TakesToken == call.op \in MutatingMethods \cup QuoteMethods

\* C21 as stated: an operation whose token is the all-zero address ends in an
\* input error (the account-type error where that is tested first) and has
\* read nothing of the chain, like one whose token is no address.
C21_AsStated ==
  (pc = "done" /\ TakesToken /\ call.options.token = ZeroAddress)
  => /\ outcome.err \in InputErrors \cup {RequiresNonReadOnlyAccount}
     /\ log = <<>>

\* the same of a token that is no address
MalformedTokenRejected ==
  (pc = "done" /\ TakesToken /\ call.options.token = NotAnAddress)
  => /\ outcome.err \in InputErrors \cup {RequiresNonReadOnlyAccount}
     /\ log = <<>>

\* the zero address passes the input checks: the chain is read for it
ZeroTokenReadsChain ==
  /\ Done("supply") /\ call.options.token = ZeroAddress
  /\ HasAnswer("getTokenBalance") /\ HasAnswer("getReservesData")
  /\ outcome.err = AAVE_V3_ERROR.CANNOT_FIND_TOKEN_RESERVE

\* and a quote of it is answered with a fee
ZeroTokenQuoted ==
  /\ Done("quoteWithdraw") /\ call.options.token = ZeroAddress
  /\ outcome.err = NoError /\ Quotes # <<>>

(***************************************************************************)
(* setUserEMode                                                            *)
(***************************************************************************)
\* C22: setUserEMode with a category id outside 0..MaxCategoryId ends in the
\* invalid-category-id error with nothing read and nothing sent; with one
\* inside, on a signing account of a supported chain, it sends exactly one
\* setUserEMode(categoryId) call to the pool and returns the sender's answer,
\* or throws what the sender threw.
C22_SetUserEMode ==
  Done("setUserEMode")
  => /\ call.categoryId \notin 0..MaxCategoryId
          => outcome.err = InvalidCategoryId /\ log = <<>>
     /\ (call.categoryId \in 0..MaxCategoryId /\ IsSigner /\ ~UnsupportedChainReported)
          => /\ Len(Sends) = 1
             /\ Sends[1].arg.txs = <<SetUserEModeTx(ResolvedPool, call.categoryId)>>
             /\ IF Sends[1].val = Rejection
                THEN outcome.err = SenderRejected
                ELSE outcome.err = NoError /\ outcome.result = Sends[1].val

C22_Witness ==
  /\ Done("setUserEMode") /\ call.categoryId = MaxCategoryId
  /\ outcome.err = NoError
  /\ Len(Sends) = 1
  /\ outcome.result = Sends[1].val

C22_WitnessRejected ==
  /\ Done("setUserEMode") /\ call.categoryId = 1024
  /\ outcome.err = InvalidCategoryId /\ log = <<>>

(***************************************************************************)
(* the allowance reset of USDT on main net                                 *)
(***************************************************************************)
QuirkApplies ==
  call.options.token = USDT /\ ResolvedPool = AAVE_V3_ADDRESS_MAP[1].pool

IsApproval(tx, amount) ==
  /\ tx.fn = "approve" /\ tx.to = call.options.token
  /\ tx.args = <<ResolvedPool, amount>>

\* C23 as stated: a successful supply or repay of USDT on main net hands the
\* sender the approval of 0, the approval of the amount and the main call, in
\* this order; for any other chain and token, the approval of the amount and
\* the main call only.
C23_AsStated ==
  (pc = "done" /\ call.op \in {"supply", "repay"} /\ outcome.err = NoError)
  => IF QuirkApplies
     THEN /\ Len(SentCalls) = 3
          /\ IsApproval(SentCalls[1], 0)
          /\ IsApproval(SentCalls[2], call.options.amount)
          /\ SentCalls[3].fn = call.op
     ELSE /\ Len(SentCalls) = 2
          /\ IsApproval(SentCalls[1], call.options.amount)
          /\ SentCalls[2].fn = call.op

\* no reset step is ever emitted, whatever the chain and the token
NoResetStep ==
  (pc = "done" /\ call.op \in {"supply", "repay"} /\ outcome.err = NoError)
  => /\ Len(SentCalls) = 2
     /\ IsApproval(SentCalls[1], call.options.amount)
     /\ SentCalls[2].fn = call.op

UsdtOnMainNetNotReset ==
  /\ Done("supply") /\ outcome.err = NoError
  /\ QuirkApplies
  /\ Len(SentCalls) = 2
  /\ IsApproval(SentCalls[1], call.options.amount)

(***************************************************************************)
(* withdraw: health factor and LTV                                         *)
(***************************************************************************)
\* the account data a withdraw was answered (read after the reserve-state
\* checks and the balance check passed)
WithdrawAccountRead == Done("withdraw") /\ HasAnswer("getUserAccountData")

WithdrawHealthFactor == ReportedHealthFactor(AnswerTo("getUserAccountData").data[6])

LtvIneligible ==
  \/ Number(AnswerTo("getUserAccountData").data[5]) = 0
  \/ TheReserve.baseLTVasCollateral.v = 0

\* C24 as stated: when the account's ltv or the reserve's baseLTVasCollateral
\* is 0 and the health factor is below the threshold, withdraw raises the
\* invalid-LTV error.
C24_AsStated ==
  (/\ WithdrawAccountRead /\ LtvIneligible
   /\ AnswerTo("getUserAccountData").data[6]
        < HEALTH_FACTOR_LIQUIDATION_THRESHOLD_IN_BASE_UNIT)
  => outcome.err = AAVE_V3_ERROR.INVALID_LTV

\* C24: in withdraw the health-factor check precedes the LTV check: a health
\* factor reported below the threshold raises the health-factor error
\* whatever the LTVs, and the invalid-LTV error is raised only for a health
\* factor reported at or above the threshold.
C24_HealthFactorBeforeLtv ==
  WithdrawAccountRead
  => /\ WithdrawHealthFactor < HEALTH_FACTOR_LIQUIDATION_THRESHOLD_IN_BASE_UNIT
          => outcome.err = AAVE_V3_ERROR.HEALTH_FACTOR_TOO_LOW
     /\ outcome.err = AAVE_V3_ERROR.INVALID_LTV
          => /\ WithdrawHealthFactor >= HEALTH_FACTOR_LIQUIDATION_THRESHOLD_IN_BASE_UNIT
             /\ LtvIneligible

C24_Witness ==
  /\ WithdrawAccountRead /\ LtvIneligible
  /\ WithdrawHealthFactor < HEALTH_FACTOR_LIQUIDATION_THRESHOLD_IN_BASE_UNIT
  /\ outcome.err = AAVE_V3_ERROR.HEALTH_FACTOR_TOO_LOW

(***************************************************************************)
(* the order of the supply rules                                           *)
(***************************************************************************)
\* the error of the first reserve-state rule the reserve read violates
SupplyReserveRuleViolated ==
  IF ~ReserveFound THEN AAVE_V3_ERROR.CANNOT_FIND_TOKEN_RESERVE
  ELSE IF TheReserve.isPaused THEN AAVE_V3_ERROR.RESERVE_PAUSED
  ELSE IF TheReserve.isFrozen THEN AAVE_V3_ERROR.RESERVE_FROZEN
  ELSE IF ~TheReserve.isActive THEN AAVE_V3_ERROR.RESERVE_INACTIVE
  ELSE NoError

\* C25: supply validation raises the error of the first violated rule in the
\* order balance, reserve exists, not paused, not frozen, active, supply cap,
\* and reads nothing that a later rule needs: an insufficient balance ends the
\* supply after the balance read alone, a reserve-state error before the
\* scaled total supply is read, a cap error before anything is sent.
C25_SupplyFailsFastInOrder ==
  (Done("supply") /\ log # <<>>)
  => /\ log[1].fn = "getTokenBalance"
     /\ AnswerTo("getTokenBalance").balance < call.options.amount
          => outcome.err = AAVE_V3_ERROR.INSUFFICIENT_FUND /\ Len(log) = 1
     /\ (AnswerTo("getTokenBalance").balance >= call.options.amount
           /\ HasAnswer("getReservesData"))
          => /\ SupplyReserveRuleViolated # NoError
                  => /\ outcome.err = SupplyReserveRuleViolated
                     /\ ~HasAnswer("scaledTotalSupply")
             /\ SupplyReserveRuleViolated = NoError
                  => /\ HasAnswer("scaledTotalSupply")
                     /\ outcome.err = AAVE_V3_ERROR.SUPPLY_CAP_EXCEEDED <=> SupplyCapExceeded
                     /\ SupplyCapExceeded => Sends = <<>>

\* a reserve both paused and frozen, with a cap of 0: the paused error
C25_Witness ==
  /\ Done("supply") /\ ReserveFound
  /\ TheReserve.isPaused /\ TheReserve.isFrozen /\ TheReserve.supplyCap = 0
  /\ outcome.err = AAVE_V3_ERROR.RESERVE_PAUSED
  /\ ~HasAnswer("scaledTotalSupply")

\* an insufficient balance: nothing else is read
InsufficientFundEndsSupply ==
  /\ Done("supply") /\ HasAnswer("getTokenBalance")
  /\ outcome.err = AAVE_V3_ERROR.INSUFFICIENT_FUND
  /\ Len(log) = 1

(***************************************************************************)
(* borrow: the collateral needed                                           *)
(***************************************************************************)
\* a borrow that has been answered the price: all the earlier checks passed
BorrowPriced == Done("borrow") /\ HasAnswer("getAssetPrice")

BorrowAccount == AnswerTo("getUserAccountData").data

AmountInBaseCurrency ==
  (call.options.amount * AnswerTo("getAssetPrice").v) \div (10 ^ TheReserve.decimals)

\* floor((v * 10000 + floor(p / 2)) / p) of the debt with the amount and the ltv
CollateralNeeded ==
  ((Number(BorrowAccount[2]) + AmountInBaseCurrency) * 10000
     + Number(BorrowAccount[5]) \div 2) \div Number(BorrowAccount[5])

BorrowCall ==
  [to |-> ResolvedPool, fn |-> "borrow",
   args |-> <<call.options.token, call.options.amount, 2, 0,
              OrElse(call.options.onBehalfOf, ME)>>,
   value |-> 0, gasLimit |-> DEFAULT_GAS_LIMIT]

\* C26: when all the earlier checks of a borrow pass, it raises the
\* insufficient-collateral error exactly when
\* floor(((totalDebtBase + floor(amount * price / 10^decimals)) * 10000
\*        + floor(ltv / 2)) / ltv) > totalCollateralBase,
\* and nothing is sent; otherwise a signing account sends exactly the one
\* borrow call.  The ltv divided by is never 0.
C26_CollateralNeededRule ==
  BorrowPriced
  => /\ Number(BorrowAccount[5]) # 0
     /\ outcome.err = AAVE_V3_ERROR.INSUFFICIENT_COLLATERAL
          <=> CollateralNeeded > Number(BorrowAccount[1])
     /\ CollateralNeeded > Number(BorrowAccount[1]) => Sends = <<>>
     /\ (CollateralNeeded <= Number(BorrowAccount[1]) /\ IsSigner)
          => /\ SentCalls = <<BorrowCall>>
             /\ outcome.err = IF Sends[1].val = Rejection THEN SenderRejected
                              ELSE NoError

\* debt 10, amount 2 at price 5: 24 needed of a collateral of 20
C26_Witness ==
  /\ BorrowPriced
  /\ Number(BorrowAccount[2]) > 0 /\ AmountInBaseCurrency > 0
  /\ CollateralNeeded > Number(BorrowAccount[1])
  /\ outcome.err = AAVE_V3_ERROR.INSUFFICIENT_COLLATERAL

BorrowWithinCollateral ==
  /\ BorrowPriced /\ IsSigner
  /\ Number(BorrowAccount[2]) > 0 /\ TheReserve.decimals > 0
  /\ CollateralNeeded <= Number(BorrowAccount[1])
  /\ SentCalls = <<BorrowCall>>

(***************************************************************************)
(* the health factor compared                                              *)
(***************************************************************************)
\* a withdraw or a borrow that got as far as its health-factor check
HealthFactorChecked ==
  /\ pc = "done" /\ call.op \in {"withdraw", "borrow"}
  /\ HasAnswer("getUserAccountData")
  /\ call.op = "borrow"
       => /\ Number(AnswerTo("getUserAccountData").data[5]) # 0
          /\ Number(AnswerTo("getUserAccountData").data[1]) # 0

RawHealthFactor == AnswerTo("getUserAccountData").data[6]

\* C27 as stated: the health-factor error is raised exactly when the raw
\* health factor the pool returned is below the threshold.
C27_AsStated ==
  HealthFactorChecked
  => (outcome.err = AAVE_V3_ERROR.HEALTH_FACTOR_TOO_LOW
        <=> RawHealthFactor < HEALTH_FACTOR_LIQUIDATION_THRESHOLD_IN_BASE_UNIT)

\* the comparison is made on the number getAccountData converted the raw
\* value to
HealthFactorComparedAsNumber ==
  HealthFactorChecked
  => (outcome.err = AAVE_V3_ERROR.HEALTH_FACTOR_TOO_LOW
        <=> ReportedHealthFactor(RawHealthFactor)
              < HEALTH_FACTOR_LIQUIDATION_THRESHOLD_IN_BASE_UNIT)

\* a raw health factor one below the threshold is rounded to the threshold
\* and accepted
HealthFactorBelowThresholdAccepted ==
  /\ HealthFactorChecked /\ call.op = "withdraw" /\ IsSigner
  /\ RawHealthFactor = HEALTH_FACTOR_LIQUIDATION_THRESHOLD_IN_BASE_UNIT - 1
  /\ outcome.err = NoError
  /\ Len(SentCalls) = 1

(***************************************************************************)
(* the reserve data of each operation                                      *)
(***************************************************************************)
ReserveStateErrors ==
  {AAVE_V3_ERROR.RESERVE_PAUSED, AAVE_V3_ERROR.RESERVE_FROZEN,
   AAVE_V3_ERROR.RESERVE_INACTIVE, AAVE_V3_ERROR.BORROW_DISABLED}

\* the operation runs on handles that an earlier operation memoized
LaterOperation ==
  /\ pc = "done" /\ call.op \in MutatingMethods
  /\ ~HasAnswer("getNetwork")
  /\ uiPoolDataProviderContract # Undefined

\* C28: every supply, withdraw, borrow, repay and setUseReserveAsCollateral
\* decides on the reserve returned to its own read, on the first operation
\* of an adapter as on every later one: it is accepted only when it has read
\* the reserves itself and the reserve it read allows it, and it is refused
\* for the reserve's state only when the reserve it read has that state.
C28_ReserveReadByEachOperation ==
  (pc = "done" /\ call.op \in MutatingMethods)
  => /\ outcome.err = NoError => ReserveFound
     /\ (outcome.err = NoError /\ call.op # "setUseReserveAsCollateral")
          => ~Blocked(call.op, TheReserve)
     /\ (outcome.err = NoError /\ call.op = "setUseReserveAsCollateral"
           /\ call.useAsCollateral)
          => TheReserve.baseLTVasCollateral # Num(0)
     /\ outcome.err \in ReserveStateErrors
          => ReserveFound /\ Blocked(call.op, TheReserve)
     /\ outcome.err = AAVE_V3_ERROR.TOKEN_CANNOT_BE_COLLATERAL
          => ReserveFound /\ TheReserve.baseLTVasCollateral = Num(0)
     /\ outcome.err = AAVE_V3_ERROR.CANNOT_FIND_TOKEN_RESERVE
          => HasAnswer("getReservesData") /\ ~ReserveFound
     /\ HasAnswer("getReservesData")
          => RequestOf("getReservesData").contract = uiPoolDataProviderContract

\* a later operation of the adapter is refused for the state of the reserve
\* that its own read returned
C28_Witness ==
  /\ LaterOperation /\ call.op = "supply"
  /\ ReserveFound /\ TheReserve.isFrozen /\ ~TheReserve.isPaused
  /\ outcome.err = AAVE_V3_ERROR.RESERVE_FROZEN

\* a later operation is accepted on the reserve that its own read returned
LaterOperationAccepted ==
  /\ LaterOperation /\ call.op = "withdraw"
  /\ ReserveFound /\ ~Blocked(call.op, TheReserve)
  /\ outcome.err = NoError
  /\ Len(SentCalls) = 1

(***************************************************************************)
(* the two submissions of a standard account                               *)
(***************************************************************************)
\* what the running operation has handed to the sender so far: the answered
\* submissions and the one it awaits
Handed ==
  [i \in 1..(Len(Sends) + IF /\ pc = "running" /\ run.status = "await"
                              /\ run.need.fn = "sendTransaction"
                           THEN 1 ELSE 0)
     |-> IF i <= Len(Sends) THEN Sends[i].arg ELSE run.need.arg]

\* C29: on a standard account a supply or a repay hands the sender the
\* approval first and the main call only after the approval was answered
\* with success; a rejected approval is what the caller receives, with the
\* main call never handed over, and a rejected main call likewise; neither
\* transaction is handed to the sender more than once.
C29_ApprovalThenMainNoRetry ==
  (pc \in {"running", "done"} /\ call.op \in {"supply", "repay"} /\ accountKind = "evm")
  => /\ Len(Handed) <= 2
     /\ \A i \in DOMAIN Handed : ~Handed[i].batch /\ Len(Handed[i].txs) = 1
     /\ Len(Handed) >= 1 => Handed[1].txs[1].fn = "approve"
     /\ Len(Handed) = 2
          => /\ Handed[2].txs[1].fn = call.op
             /\ Sends # <<>> /\ Sends[1].val # Rejection
     /\ (Sends # <<>> /\ Sends[Len(Sends)].val = Rejection)
          => /\ Len(Handed) = Len(Sends)
             /\ run.status = "throw" /\ run.err = SenderRejected
             /\ pc = "done" => outcome.err = SenderRejected

\* the approval of a supply is rejected: the supply call is never handed over
C29_Witness ==
  /\ Done("supply") /\ accountKind = "evm"
  /\ Len(Sends) = 1
  /\ SentCalls[1].fn = "approve"
  /\ Sends[1].val = Rejection
  /\ outcome.err = SenderRejected

\* the main call of a repay is rejected after its approval was accepted
MainCallRejected ==
  /\ Done("repay") /\ accountKind = "evm"
  /\ Len(Sends) = 2
  /\ Sends[1].val # Rejection /\ Sends[2].val = Rejection
  /\ outcome.err = SenderRejected

(***************************************************************************)
(* the allowance under concurrent supplies and repays                      *)
(***************************************************************************)
HandsMainCall(op) ==
  /\ HandsTransaction(op)
  /\ HandedTransaction(op).fn \in {"supply", "repay"}

ApprovalOverwritten ==
  \E t \in TaskIds :
    /\ HandsTransaction(inFlight[t])
    /\ HandedTransaction(inFlight[t]).fn = "approve"
    /\ allowance < HandedTransaction(inFlight[t]).args[2]

====
